---- MODULE Spec2Model ----
(***************************************************************************)
(* dsa::bstree (src/bstree.hpp): an unbalanced binary search tree with     *)
(* unique keys, its three-state iterator, and the insert / emplace /       *)
(* erase / clear operations, modelled over an explicit heap of nodes.      *)
(*                                                                         *)
(* Pointers are addresses 0..MaxNodes, 0 being nullptr.  mem[a] is the     *)
(* content of the node-sized block at address a; it keeps its last content *)
(* after the block has been deallocated (a dangling pointer still reads    *)
(* it).  _node_alloc is the set of blocks currently allocated.  An         *)
(* execution that dereferences nullptr ends the program ("crashed"); one   *)
(* that enters a loop it cannot leave ends it too ("hung"); one that uses  *)
(* a deallocated block (read, write, or a second deallocate) has undefined *)
(* behaviour, modelled as the choice between ending the program and going  *)
(* on with the stale content to the end of the call ("undefined").         *)
(***************************************************************************)
EXTENDS Integers, Sequences, FiniteSets, TLC

\* Keys are the integers 1..MaxKey, compared by std::less <Key>.
MaxKey == 4
\* The heap holds MaxNodes node-sized blocks, addresses 1..MaxNodes.
MaxNodes == 4

\* The client of a copied tree makes MaxCalls calls on the copy.
MaxCalls == 3

\* The keys of the scenario of the specification, in the order of insertion.
Script == <<5, 3, 8, 1, 4, 7, 9>>

Keys == 1 .. MaxKey
Nodes == 1 .. MaxNodes
\* The addresses: room for the MaxNodes blocks and for the nodes of Script.
Addr == 0 .. (IF MaxNodes < Len(Script) THEN Len(Script) ELSE MaxNodes)
NULL == 0

VARIABLES
    mem,         \* Addr -> node: the heap; mem[NULL] is never a node
    _node_alloc, \* the blocks allocated and not yet deallocated
    _tree_root,  \* node_handle _tree_root (its pointer)
    _tree_size,  \* size_type _tree_size: an integer v stands for v mod 2^64
    _begin,      \* iterator _begin
    _end,        \* iterator _end
    status,      \* "ok"; "undefined" after a call with undefined behaviour;
                 \* or how the program ended: "crashed", "hung"
    last,        \* the last call made and what it returned
    other,       \* the tree this one was copy-constructed from, if any
    sorting      \* the range handed to a sorting function, and what became
                 \* of it

vars ==
    <<mem, _node_alloc, _tree_root, _tree_size, _begin, _end, status, last,
      other, sorting>>

\* A range of elements not yet handed to a sorting function.
given(a) == [call |-> "none", seq |-> "none", input |-> a, elems |-> a,
             how |-> "ok"]

\* struct node: value, left, right, parent; a new node has no children.
node(val, p) == [value |-> val, left |-> NULL, right |-> NULL, parent |-> p]

\* What the model keeps at address 0 and in blocks never allocated.
no_node == [value |-> 0, left |-> NULL, right |-> NULL, parent |-> NULL]

\* bstree_iterator (Node * i, enum state s = state::valid)
bstree_iterator(i, s) == [iter |-> i, state |-> s]

\* bstree_iterator (void): the singular iterator
singular == [iter |-> NULL, state |-> "after_end"]

\* bstree_iterator & operator= (Node * i): the state is kept
assign_node(it, i) == [it EXCEPT !.iter = i]

\* bool operator== (bstree_iterator const & other)
iter_eq(a, b) ==
    IF a.state = "valid" /\ b.state = "valid" THEN a.iter = b.iter
    ELSE IF a.state = "after_end" /\ b.state = "after_end" THEN a.iter = b.iter
    ELSE FALSE

\* std::less <Key>
key_comp(a, b) == a < b

\* A step count no loop over an unchanging heap reaches unless it cycles.
Fuel == Cardinality(Addr)

\* The result of a walk that ran out of Fuel: the loop never ends.
HANG == 0 - 1

----------------------------------------------------------------------------
\* operator++ and operator--

Range(s) == {s[i] : i \in DOMAIN s}
Last(s) == s[Len(s)]

\* What a step of an iterator gives: the iterator afterwards, the addresses
\* dereferenced, and whether the step never ends.
moved(it, touched, hang) == [it |-> it, touched |-> touched, hang |-> hang]

RECURSIVE leftmost(_, _, _)
\* while (n->left) n = n->left;  the nodes dereferenced, the last one the result
leftmost(m, n, fuel) ==
    IF fuel = 0 THEN <<HANG>>
    ELSE IF m[n].left = NULL THEN <<n>>
    ELSE <<n>> \o leftmost(m, m[n].left, fuel - 1)

RECURSIVE rightmost(_, _, _)
\* while (n->right) n = n->right;
rightmost(m, n, fuel) ==
    IF fuel = 0 THEN <<HANG>>
    ELSE IF m[n].right = NULL THEN <<n>>
    ELSE <<n>> \o rightmost(m, m[n].right, fuel - 1)

\* this->_iter = n, after the descent p from n's child
descended(i, p) ==
    moved([i EXCEPT !.iter = Last(p)], {i.iter} \cup (Range(p) \ {HANG}),
          Last(p) = HANG)

RECURSIVE inc_ascend(_, _, _)
\* operator++, the while (true) loop over `it`: the nodes dereferenced, then
\* the ancestor reached from the left, NULL when the root was reached from
\* the right
inc_ascend(m, it, fuel) ==
    IF fuel = 0 THEN <<HANG>>
    ELSE IF m[it].parent = NULL THEN <<it, NULL>>
    ELSE IF m[m[it].parent].left = it THEN <<it, m[it].parent, m[it].parent>>
    ELSE <<it>> \o inc_ascend(m, m[it].parent, fuel - 1)

\* operator++, after the loop: this->_iter = n, or the after_end state
inc_ascended(i, p) ==
    moved(IF Last(p) = NULL THEN [i EXCEPT !.state = "after_end"]
          ELSE [i EXCEPT !.iter = Last(p)],
          {i.iter} \cup (Range(SubSeq(p, 1, Len(p) - 1)) \ {HANG}),
          Last(p) = HANG)

\* bstree_iterator & operator++ (void)
operator_inc(m, i) ==
    IF i.iter # NULL /\ i.state # "after_end" /\ i.state # "invalid"
    THEN IF m[i.iter].right # NULL
         THEN descended(i, leftmost(m, m[i.iter].right, Fuel))
         ELSE IF m[i.iter].parent # NULL
         THEN IF i.iter = m[m[i.iter].parent].left
              THEN moved([i EXCEPT !.iter = m[i.iter].parent],
                         {i.iter, m[i.iter].parent}, FALSE)
              ELSE inc_ascended(i, inc_ascend(m, m[i.iter].parent, Fuel))
         ELSE moved([i EXCEPT !.state = "after_end"], {i.iter}, FALSE)
    ELSE moved(i, {}, FALSE)

RECURSIVE dec_ascend(_, _, _)
\* operator--, the while (true) loop over `it`: the nodes dereferenced.  No
\* branch of it leaves the loop: the first two change nothing the loop
\* reads, the third moves up.
dec_ascend(m, it, fuel) ==
    IF fuel = 0 THEN <<>>
    ELSE IF m[it].parent = NULL THEN <<it>>
    ELSE IF m[m[it].parent].right = it THEN <<it, m[it].parent>>
    ELSE <<it>> \o dec_ascend(m, m[it].parent, fuel - 1)

\* bstree_iterator & operator-- (void)
operator_dec(m, i) ==
    IF i.iter # NULL /\ i.state # "after_end" /\ i.state # "invalid"
    THEN IF m[i.iter].left # NULL
         THEN descended(i, rightmost(m, m[i.iter].left, Fuel))
         ELSE IF m[i.iter].parent # NULL
         THEN IF i.iter = m[m[i.iter].parent].right
              THEN moved([i EXCEPT !.iter = m[i.iter].parent],
                         {i.iter, m[i.iter].parent}, FALSE)
              ELSE moved(i, {i.iter} \cup
                            Range(dec_ascend(m, m[i.iter].parent, Fuel)), TRUE)
         ELSE moved([iter |-> NULL, state |-> "invalid"], {i.iter}, FALSE)
    ELSE IF i.iter # NULL /\ i.state = "after_end"
    THEN moved([i EXCEPT !.state = "valid"], {}, FALSE)
    ELSE moved(i, {}, FALSE)

----------------------------------------------------------------------------
\* Node lifecycle

\* The tree object, and what a member function hands back: the members
\* afterwards, the addresses it dereferenced, whether it used a deallocated
\* block (ub), whether it never ends (hang), whether it called node_create
\* (allocs), whether it left by an exception of allocate (thrown), and the
\* iterator / flag / count it returns.
bstree(m, alloc, root, size, b, e) ==
    [mem |-> m, alloc |-> alloc, root |-> root, size |-> size, bgn |-> b,
     end |-> e, touched |-> {}, ub |-> FALSE, hang |-> FALSE,
     allocs |-> FALSE, thrown |-> FALSE, it |-> singular, flag |-> FALSE,
     count |-> 0]

\* A walk's trace added to the result: what it dereferenced, what of that
\* was deallocated at the time, whether it hung.
walked(t, touched, hang) ==
    [t EXCEPT !.touched = t.touched \cup touched,
              !.ub = t.ub \/ ~((touched \ {NULL}) \subseteq t.alloc),
              !.hang = t.hang \/ hang]

\* auto mem = alloc.allocate (1); ::new (mem) node {value, parent};
node_create(t, x, value, parent) ==
    [t EXCEPT !.mem = [t.mem EXCEPT ![x] = node(value, parent)],
              !.alloc = t.alloc \cup {x},
              !.allocs = TRUE]

\* alloc.deallocate (n, 1): a second deallocate of a block is undefined
deallocate(t, n) ==
    [t EXCEPT !.alloc = t.alloc \ {n}, !.ub = t.ub \/ n \notin t.alloc]

RECURSIVE tree_delete(_, _, _)
\* static void tree_delete (node * n, node_allocator & alloc), the loop
\* while (n != nullptr).  idle counts the steps made since the heap or the
\* allocator last changed: more than MaxNodes of them repeat a state, and
\* the loop never ends.
tree_delete(t, n, idle) ==
    IF n = NULL THEN t
    ELSE IF idle > MaxNodes THEN [t EXCEPT !.hang = TRUE]
    ELSE IF t.mem[n].left # NULL
    THEN tree_delete(walked(t, {n}, FALSE), t.mem[n].left, idle + 1)
    ELSE IF t.mem[n].right # NULL
    THEN tree_delete(walked(t, {n}, FALSE), t.mem[n].right, idle + 1)
    ELSE IF t.mem[n].parent # NULL /\ n = t.mem[t.mem[n].parent].left
    THEN tree_delete(
             deallocate([walked(t, {n, t.mem[n].parent}, FALSE)
                           EXCEPT !.mem[t.mem[n].parent].left = NULL], n),
             t.mem[n].parent, 0)
    ELSE IF t.mem[n].parent # NULL /\ n = t.mem[t.mem[n].parent].right
    THEN tree_delete(
             deallocate([walked(t, {n, t.mem[n].parent}, FALSE)
                           EXCEPT !.mem[t.mem[n].parent].right = NULL], n),
             t.mem[n].parent, 0)
    ELSE tree_delete(deallocate(walked(t, {n, t.mem[n].parent} \ {NULL},
                                       FALSE), n),
                     t.mem[n].parent,
                     IF n \in t.alloc THEN 0 ELSE idle + 1)

\* The nodes reachable from n through child links (a dangling link counts).
RECURSIVE reach(_, _, _)
reach(m, n, seen) ==
    IF n = NULL \/ n \in seen THEN seen
    ELSE reach(m, m[n].right, reach(m, m[n].left, seen \cup {n}))

\* _tree_root.reset (n): the old root goes to the deleter, tree_delete
reset_root(t, n) == tree_delete([t EXCEPT !.root = n], t.root, 0)

\* void make_root (Args && ... args): node_create into block x
make_root(t, x, value) ==
    [reset_root(node_create(t, x, value, NULL), x)
       EXCEPT !.bgn = bstree_iterator(x, "valid"),
              !.end = bstree_iterator(x, "after_end"),
              !.size = 1]

\* if (parent == this->_begin) this->_begin = parent->left;
begin_left(t, parent) ==
    IF iter_eq(bstree_iterator(parent, "valid"), t.bgn)
    THEN [t EXCEPT !.bgn = assign_node(t.bgn, t.mem[parent].left)]
    ELSE t

\* if (parent == this->_end) this->_end = parent->right;
end_right(t, parent) ==
    IF iter_eq(bstree_iterator(parent, "valid"), t.end)
    THEN [t EXCEPT !.end = assign_node(t.end, t.mem[parent].right)]
    ELSE t

\* void insert_left (node * const parent, Args && ... args)
insert_left(t, parent, x, value) ==
    begin_left([node_create(t, x, value, parent)
                  EXCEPT !.mem[parent].left = x, !.size = t.size + 1],
               parent)

\* void insert_right (node * const parent, Args && ... args)
insert_right(t, parent, x, value) ==
    end_right([node_create(t, x, value, parent)
                 EXCEPT !.mem[parent].right = x, !.size = t.size + 1],
              parent)

\* void insert_left (node * const parent, node * const n)
insert_left_node(t, parent, n) ==
    begin_left([t EXCEPT !.mem[parent].left = n, !.mem[n].parent = parent,
                         !.size = t.size + 1],
               parent)

\* void insert_right (node * const parent, node * const n)
insert_right_node(t, parent, n) ==
    end_right([t EXCEPT !.mem[parent].right = n, !.mem[n].parent = parent,
                        !.size = t.size + 1],
              parent)

----------------------------------------------------------------------------
\* Searching

\* Where a search loop stopped: at node n, and how: the key is there
\* ("equal"), or it belongs in the empty "left" or "right" branch of n; the
\* loop dereferenced nullptr ("null"), or never ends ("hang").
stopped(n, how) == [n |-> n, how |-> how, touched |-> {n}]
via(n, w) == [w EXCEPT !.touched = w.touched \cup {n}]

RECURSIVE find_walk(_, _, _, _)
\* find_impl, the loop while (true) over n
find_walk(m, n, key, fuel) ==
    IF n = NULL THEN stopped(n, "null")
    ELSE IF fuel = 0 THEN stopped(n, "hang")
    ELSE IF key_comp(key, m[n].value)
    THEN IF m[n].left # NULL THEN via(n, find_walk(m, m[n].left, key, fuel - 1))
         ELSE stopped(n, "left")
    ELSE IF key_comp(m[n].value, key)
    THEN IF m[n].right # NULL
         THEN via(n, find_walk(m, m[n].right, key, fuel - 1))
         ELSE stopped(n, "right")
    ELSE stopped(n, "equal")

\* find_impl, the two returns
find_return(t, w) ==
    [walked(t, w.touched, w.how = "hang")
       EXCEPT !.it = IF w.how = "equal" THEN bstree_iterator(w.n, "valid")
                     ELSE t.end]

\* iterator find_impl (key_type const & key) const
find_impl(t, key) ==
    IF t.size = 0 THEN [t EXCEPT !.it = t.end]
    ELSE find_return(t, find_walk(t.mem, t.root, key, Fuel))

----------------------------------------------------------------------------
\* lower_bound and upper_bound

\* Where one of the two loops over pos stands: the iterator, the addresses
\* dereferenced, whether it never ends, and whether it returned pos from
\* inside the loop (done) or fell out of it.
paused(it, touched, hang, done) ==
    [it |-> it, touched |-> touched, hang |-> hang, done |-> done]
after(touched, w) == [w EXCEPT !.touched = w.touched \cup touched]

\* return ++pos
stepped(w, s) == paused(s.it, w.touched \cup s.touched, s.hang, TRUE)

\* A loop over pos that changes neither pos nor the tree for this many
\* rounds never ends.
WalkFuel == 2 * Fuel

RECURSIVE backwards(_, _, _, _, _)
\* --pos in the loop below
back_step(m, b, d, n, key, fuel) ==
    IF d.hang \/ NULL \in d.touched
    THEN paused(d.it, d.touched \cup {n}, d.hang, TRUE)
    ELSE after(d.touched \cup {n}, backwards(m, b, d.it, key, fuel - 1))

\* while (_key_comp (key, pos->value))
\*     if (_begin == pos) return pos; else --pos;
\* pos->value is the value of the node pos is on.
backwards(m, b, pos, key, fuel) ==
    IF pos.iter = NULL THEN paused(pos, {NULL}, FALSE, TRUE)
    ELSE IF fuel = 0 THEN paused(pos, {}, TRUE, TRUE)
    ELSE IF ~key_comp(key, m[pos.iter].value)
    THEN paused(pos, {pos.iter}, FALSE, FALSE)
    ELSE IF iter_eq(b, pos) THEN paused(pos, {pos.iter}, FALSE, TRUE)
    ELSE back_step(m, b, operator_dec(m, pos), pos.iter, key, fuel)

RECURSIVE forwards(_, _, _, _, _)
\* ++pos in the loop below
forth_step(m, e, d, n, key, fuel) ==
    IF d.hang \/ NULL \in d.touched
    THEN paused(d.it, d.touched \cup {n}, d.hang, TRUE)
    ELSE after(d.touched \cup {n}, forwards(m, e, d.it, key, fuel - 1))

\* while (_key_comp (pos->value, key))
\*     if (_end == pos) return pos; else ++pos;
forwards(m, e, pos, key, fuel) ==
    IF pos.iter = NULL THEN paused(pos, {NULL}, FALSE, TRUE)
    ELSE IF fuel = 0 THEN paused(pos, {}, TRUE, TRUE)
    ELSE IF ~key_comp(m[pos.iter].value, key)
    THEN paused(pos, {pos.iter}, FALSE, FALSE)
    ELSE IF iter_eq(e, pos) THEN paused(pos, {pos.iter}, FALSE, TRUE)
    ELSE forth_step(m, e, operator_inc(m, pos), pos.iter, key, fuel)

\* return pos
bound_return(t, w) == [walked(t, w.touched, w.hang) EXCEPT !.it = w.it]

\* lower_bound_impl without the step forward after the backward loop
lower_back_unstepped(t, w, key) == bound_return(t, w)

\* lower_bound_impl after the backward loop: one step forward if pos went
\* behind key
lower_back(t, w, key) ==
    IF ~w.done /\ key_comp(t.mem[w.it.iter].value, key)
    THEN bound_return(t, stepped(w, operator_inc(t.mem, w.it)))
    ELSE bound_return(t, w)

\* iterator lower_bound_impl (key_type const & key) const
lower_bound_impl(t, key) ==
    IF t.size = 0 THEN [t EXCEPT !.it = t.end]
    ELSE IF t.root = NULL THEN walked(t, {NULL}, FALSE)
    ELSE IF key_comp(key, t.mem[t.root].value)
    THEN lower_back(t, backwards(t.mem, t.bgn,
                                 bstree_iterator(t.root, "valid"), key,
                                 WalkFuel), key)
    ELSE IF key_comp(t.mem[t.root].value, key)
    THEN bound_return(t, forwards(t.mem, t.end,
                                  bstree_iterator(t.root, "valid"), key,
                                  WalkFuel))
    ELSE bound_return(t, paused(bstree_iterator(t.root, "valid"), {t.root},
                                FALSE, TRUE))

\* upper_bound_impl after the backward loop: always one step forward
upper_back(t, w) ==
    IF ~w.done THEN bound_return(t, stepped(w, operator_inc(t.mem, w.it)))
    ELSE bound_return(t, w)

\* upper_bound_impl after the forward loop: one step forward if pos is on
\* key
upper_forth(t, w, key) ==
    IF ~w.done /\ ~key_comp(key, t.mem[w.it.iter].value)
    THEN bound_return(t, stepped(w, operator_inc(t.mem, w.it)))
    ELSE bound_return(t, w)

\* return ++pos, from the root
upper_root(t, pos) ==
    bound_return(t, stepped(paused(pos, {t.root}, FALSE, TRUE),
                            operator_inc(t.mem, pos)))

\* iterator upper_bound_impl (key_type const & key) const
upper_bound_impl(t, key) ==
    IF t.size = 0 THEN [t EXCEPT !.it = t.end]
    ELSE IF t.root = NULL THEN walked(t, {NULL}, FALSE)
    ELSE IF key_comp(key, t.mem[t.root].value)
    THEN upper_back(t, backwards(t.mem, t.bgn,
                                 bstree_iterator(t.root, "valid"), key,
                                 WalkFuel))
    ELSE IF key_comp(t.mem[t.root].value, key)
    THEN upper_forth(t, forwards(t.mem, t.end,
                                 bstree_iterator(t.root, "valid"), key,
                                 WalkFuel), key)
    ELSE upper_root(t, bstree_iterator(t.root, "valid"))

\* equal_range: auto upper = lower; ++upper;
\* return std::make_pair (lower, upper);
range_pair(l, d) ==
    [first |-> l.it, second |-> d.it, touched |-> l.touched \cup d.touched,
     hang |-> l.hang \/ d.hang]

\* std::pair <iterator, iterator> equal_range (key_type const & key), l
\* being what lower_bound (key) gave
equal_range_from(l) ==
    IF NULL \in l.touched \/ l.hang THEN range_pair(l, l)
    ELSE range_pair(l, operator_inc(l.mem, l.it))

\* std::pair <iterator, iterator> equal_range (key_type const & key)
equal_range(t, key) == equal_range_from(lower_bound_impl(t, key))

----------------------------------------------------------------------------
\* insert and emplace

\* return std::make_pair (iterator {n}, flag)
make_pair(t, n, flag) ==
    [t EXCEPT !.it = bstree_iterator(n, "valid"), !.flag = flag]

RECURSIVE insert_walk(_, _, _, _)
\* insert (value_type const &), the loop while (true) over n
insert_walk(m, n, value, fuel) ==
    IF n = NULL THEN stopped(n, "null")
    ELSE IF fuel = 0 THEN stopped(n, "hang")
    ELSE IF key_comp(value, m[n].value)
    THEN IF m[n].left # NULL
         THEN via(n, insert_walk(m, m[n].left, value, fuel - 1))
         ELSE stopped(n, "left")
    ELSE IF key_comp(m[n].value, value)
    THEN IF m[n].right # NULL
         THEN via(n, insert_walk(m, m[n].right, value, fuel - 1))
         ELSE stopped(n, "right")
    ELSE stopped(n, "equal")

\* insert, the three ways out of the loop
insert_return(t, w, value, x) ==
    IF w.how = "left"
    THEN make_pair(insert_left(walked(t, w.touched, FALSE), w.n, x, value),
                   x, TRUE)
    ELSE IF w.how = "right"
    THEN make_pair(insert_right(walked(t, w.touched, FALSE), w.n, x, value),
                   x, TRUE)
    ELSE IF w.how = "equal"
    THEN make_pair(walked(t, w.touched, FALSE), w.n, FALSE)
    ELSE walked(t, w.touched, w.how = "hang")

\* std::pair <iterator, bool> insert (value_type const & value); x is the
\* block allocate (1) returns if it is called
insert(t, value, x) ==
    IF t.size = 0 THEN make_pair(make_root(t, x, value), x, TRUE)
    ELSE insert_return(t, insert_walk(t.mem, t.root, value, Fuel), value, x)

RECURSIVE hint_back(_, _, _, _, _)
\* --pos in the loop below
hint_back_step(m, b, d, n, value, fuel) ==
    IF d.hang THEN paused(d.it, d.touched \cup {n}, TRUE, TRUE)
    ELSE after(d.touched \cup {n}, hint_back(m, b, d.it, value, fuel - 1))

\* insert (hint, value): while (pos != _begin && _key_comp (value, pos->value))
\*     --pos;
hint_back(m, b, pos, value, fuel) ==
    IF fuel = 0 THEN paused(pos, {}, TRUE, TRUE)
    ELSE IF iter_eq(pos, b) THEN paused(pos, {}, FALSE, FALSE)
    ELSE IF pos.iter = NULL THEN paused(pos, {NULL}, FALSE, TRUE)
    ELSE IF ~key_comp(value, m[pos.iter].value)
    THEN paused(pos, {pos.iter}, FALSE, FALSE)
    ELSE hint_back_step(m, b, operator_dec(m, pos), pos.iter, value, fuel)

RECURSIVE hint_forth(_, _, _, _, _)
\* ++pos in the loop below
hint_forth_step(m, e, d, n, value, fuel) ==
    IF d.hang THEN paused(d.it, d.touched \cup {n}, TRUE, TRUE)
    ELSE after(d.touched \cup {n}, hint_forth(m, e, d.it, value, fuel - 1))

\* insert (hint, value): while (pos != _end && _key_comp (pos->value, value))
\*     ++pos;
hint_forth(m, e, pos, value, fuel) ==
    IF fuel = 0 THEN paused(pos, {}, TRUE, TRUE)
    ELSE IF iter_eq(pos, e) THEN paused(pos, {}, FALSE, FALSE)
    ELSE IF pos.iter = NULL THEN paused(pos, {NULL}, FALSE, TRUE)
    ELSE IF ~key_comp(m[pos.iter].value, value)
    THEN paused(pos, {pos.iter}, FALSE, FALSE)
    ELSE hint_forth_step(m, e, operator_inc(m, pos), pos.iter, value, fuel)

\* insert (hint, value) up to the call of insert_at: where pos stands; hint
\* is the node of the hint
hint_walk(m, b, e, hint, value) ==
    IF hint = NULL THEN paused(singular, {NULL}, FALSE, TRUE)
    ELSE IF key_comp(value, m[hint].value)
    THEN hint_back(m, b, bstree_iterator(hint, "valid"), value, WalkFuel)
    ELSE hint_forth(m, e, bstree_iterator(hint, "valid"), value, WalkFuel)

\* insert_at: the assert of the branch taken fails, the child of pos being
\* there already
asserted(m, w, value) ==
    /\ ~w.done
    /\ IF key_comp(value, m[w.it.iter].value) THEN m[w.it.iter].left # NULL
       ELSE IF key_comp(m[w.it.iter].value, value)
       THEN m[w.it.iter].right # NULL
       ELSE FALSE

\* if (pos == this->_begin) this->_begin = iterator {pos->left};
\* return iterator {pos->left};
at_left(t, pos) ==
    [t EXCEPT !.bgn = IF iter_eq(pos, t.bgn)
                      THEN bstree_iterator(t.mem[pos.iter].left, "valid")
                      ELSE t.bgn,
              !.it = bstree_iterator(t.mem[pos.iter].left, "valid")]

\* if (pos == this->_end) this->_end = iterator {pos->right};
\* return iterator {pos->right};
at_right(t, pos) ==
    [t EXCEPT !.end = IF iter_eq(pos, t.end)
                      THEN bstree_iterator(t.mem[pos.iter].right, "valid")
                      ELSE t.end,
              !.it = bstree_iterator(t.mem[pos.iter].right, "valid")]

\* iterator insert_at (iterator pos, value_type const & value), the asserts
\* compiled out
insert_at(t, pos, value, x) ==
    IF key_comp(value, t.mem[pos.iter].value)
    THEN at_left(insert_left(walked(t, {pos.iter}, FALSE), pos.iter, x, value),
                 pos)
    ELSE IF key_comp(t.mem[pos.iter].value, value)
    THEN at_right(insert_right(walked(t, {pos.iter}, FALSE), pos.iter, x,
                               value), pos)
    ELSE [walked(t, {pos.iter}, FALSE) EXCEPT !.it = pos]

\* insert (hint, value) from the call of insert_at on
hint_return(t, w, value, x) ==
    IF w.done THEN walked(t, w.touched, w.hang)
    ELSE insert_at(walked(t, w.touched, FALSE), w.it, value, x)

\* iterator insert (const_iterator hint, value_type const & value)
insert_hint(t, hint, value, x) ==
    hint_return(t, hint_walk(t.mem, t.bgn, t.end, hint, value), value, x)

RECURSIVE emplace_walk(_, _, _, _)
\* emplace, the loop while (true) over it; in is the new node
emplace_walk(m, it, in, fuel) ==
    IF it = NULL THEN stopped(it, "null")
    ELSE IF fuel = 0 THEN stopped(it, "hang")
    ELSE IF key_comp(m[in].value, m[it].value)
    THEN IF m[it].left # NULL
         THEN via(it, emplace_walk(m, m[it].left, in, fuel - 1))
         ELSE stopped(it, "left")
    ELSE IF key_comp(m[it].value, m[in].value)
    THEN IF m[it].right # NULL
         THEN via(it, emplace_walk(m, m[it].right, in, fuel - 1))
         ELSE stopped(it, "right")
    ELSE stopped(it, "equal")

\* emplace, the three ways out of the loop
emplace_return(t, w, in) ==
    IF w.how = "left"
    THEN make_pair(insert_left_node(walked(t, w.touched, FALSE), w.n, in),
                   in, TRUE)
    ELSE IF w.how = "right"
    THEN make_pair(insert_right_node(walked(t, w.touched, FALSE), w.n, in),
                   in, TRUE)
    ELSE IF w.how = "equal"
    THEN make_pair(deallocate(walked(t, w.touched, FALSE), in), w.n, FALSE)
    ELSE walked(t, w.touched, w.how = "hang")

\* emplace, the try block: t already holds the new node in
emplace_try(t, in) ==
    emplace_return(t, emplace_walk(t.mem, t.root, in, Fuel), in)

\* std::pair <iterator, bool> emplace (Args && ... args); x is the block
\* allocate (1) returns
emplace(t, value, x) ==
    IF t.size = 0 THEN make_pair(make_root(t, x, value), x, TRUE)
    ELSE emplace_try(node_create(t, x, value, NULL), x)

----------------------------------------------------------------------------
\* erase

\* erase (iterator), the chain if (_tree_root == n) .. else if
\* (n->parent->left == n) .. else if (n->parent->right == n): the link that
\* holds n is given the value c.  A root handed over by release () / reset
\* (c) has no old root to delete; reset () of the leaf root deletes it.
replace(t, n, c) ==
    IF t.root = n
    THEN IF c = NULL THEN reset_root(t, NULL) ELSE [t EXCEPT !.root = c]
    ELSE IF t.mem[n].parent = NULL THEN walked(t, {NULL}, FALSE)
    ELSE IF t.mem[t.mem[n].parent].left = n
    THEN [walked(t, {t.mem[n].parent}, FALSE)
            EXCEPT !.mem[t.mem[n].parent].left = c]
    ELSE IF t.mem[t.mem[n].parent].right = n
    THEN [walked(t, {t.mem[n].parent}, FALSE)
            EXCEPT !.mem[t.mem[n].parent].right = c]
    ELSE walked(t, {t.mem[n].parent}, FALSE)

\* if (this->_begin == n) this->_begin = n->parent;
begin_parent(t, n) ==
    IF iter_eq(t.bgn, bstree_iterator(n, "valid"))
    THEN [walked(t, {n}, FALSE)
            EXCEPT !.bgn = assign_node(t.bgn, t.mem[n].parent)]
    ELSE t

\* if (this->_end == n) this->_end = n->parent;
end_parent(t, n) ==
    IF iter_eq(t.end, bstree_iterator(n, "valid"))
    THEN [walked(t, {n}, FALSE)
            EXCEPT !.end = assign_node(t.end, t.mem[n].parent)]
    ELSE t

\* the leaf: if (_begin == n) .. else if (_end == n) ..
leaf_iterators(t, n) ==
    IF iter_eq(t.bgn, bstree_iterator(n, "valid")) THEN begin_parent(t, n)
    ELSE end_parent(t, n)

\* erase (iterator), the branch if (!n->left && !n->right)
erase_leaf(t, n) == leaf_iterators(replace(t, n, NULL), n)

\* n->right->parent = n->parent;
right_parent(t, n) ==
    [walked(t, {n, t.mem[n].right}, FALSE)
       EXCEPT !.mem[t.mem[n].right].parent = t.mem[n].parent]

\* n->left->parent = n->parent;
left_parent(t, n) ==
    [walked(t, {n, t.mem[n].left}, FALSE)
       EXCEPT !.mem[t.mem[n].left].parent = t.mem[n].parent]

\* erase (iterator), the branch else if (!n->left)
erase_no_left(t, n) ==
    begin_parent(right_parent(replace(t, n, t.mem[n].right), n), n)

\* erase (iterator), the branch else if (!n->right)
erase_no_right(t, n) ==
    end_parent(left_parent(replace(t, n, t.mem[n].left), n), n)

\* parity ? n->left : n->right
near(m, n, parity) == IF parity THEN m[n].left ELSE m[n].right

\* parity ? n->right : n->left
far(m, n, parity) == IF parity THEN m[n].right ELSE m[n].left

\* two children, n the root: _tree_root.release (); _tree_root.reset (c);
\* c->parent = nullptr; with c the child on the side parity chooses
promote_root(t, n, parity) ==
    [walked(t, {n, near(t.mem, n, parity)}, FALSE)
       EXCEPT !.root = near(t.mem, n, parity),
              !.mem[near(t.mem, n, parity)].parent = NULL]

\* n->left->parent = *branch;  (n->right->parent when parity is false)
promoted_parent(t, n, parity, parent, branch) ==
    [walked(t, {n, near(t.mem, n, parity), parent}, FALSE)
       EXCEPT !.mem[near(t.mem, n, parity)].parent = t.mem[parent][branch]]

\* *branch = n->left;  (n->right when parity is false)
promote_branch(t, n, parity, parent, branch) ==
    promoted_parent(
        [walked(t, {n, parent}, FALSE)
           EXCEPT !.mem[parent][branch] = near(t.mem, n, parity)],
        n, parity, parent, branch)

\* two children, n not the root: parent = n->parent; branch = n ==
\* parent->left ? &parent->left : &parent->right;
promote(t, n, parity) ==
    IF t.mem[n].parent = NULL THEN walked(t, {n, NULL}, FALSE)
    ELSE promote_branch(t, n, parity, t.mem[n].parent,
                        IF n = t.mem[t.mem[n].parent].left THEN "left"
                        ELSE "right")

RECURSIVE graft_walk(_, _, _, _)
\* erase (iterator), the loop while (true) that finds the place of in below
\* it
graft_walk(m, it, in, fuel) ==
    IF it = NULL \/ in = NULL THEN stopped(NULL, "null")
    ELSE IF fuel = 0 THEN stopped(it, "hang")
    ELSE IF key_comp(m[in].value, m[it].value)
    THEN IF m[it].left # NULL
         THEN via(it, graft_walk(m, m[it].left, in, fuel - 1))
         ELSE stopped(it, "left")
    ELSE IF m[it].right # NULL
         THEN via(it, graft_walk(m, m[it].right, in, fuel - 1))
         ELSE stopped(it, "right")

\* it->left = in; in->parent = it;  (it->right where the walk went right)
grafted(t, w, in) ==
    IF w.how \in {"left", "right"}
    THEN [walked(t, w.touched \cup {in}, FALSE)
            EXCEPT !.mem[w.n][w.how] = in,
                   !.mem[in].parent = w.n]
    ELSE walked(t, w.touched, w.how = "hang")

\* it = parity ? n->left : n->right; in = parity ? n->right : n->left; and
\* the loop
graft(t, n, parity) ==
    IF NULL \in t.touched THEN t
    ELSE grafted(walked(t, {n}, FALSE),
                 graft_walk(t.mem, near(t.mem, n, parity),
                            far(t.mem, n, parity), Fuel),
                 far(t.mem, n, parity))

\* erase (iterator), the branch for a node with two children
erase_two(t, n) ==
    graft(IF t.root = n THEN promote_root(t, n, t.size % 2 = 0)
          ELSE promote(t, n, t.size % 2 = 0),
          n, t.size % 2 = 0)

\* erase (iterator), the four branches on n's children
unlink(t, n) ==
    IF t.mem[n].left = NULL /\ t.mem[n].right = NULL THEN erase_leaf(t, n)
    ELSE IF t.mem[n].left = NULL THEN erase_no_left(t, n)
    ELSE IF t.mem[n].right = NULL THEN erase_no_right(t, n)
    ELSE erase_two(t, n)

\* this->_tree_size -= 1; this->_node_alloc.deallocate (n, 1);
erased(t, n) ==
    IF NULL \in t.touched \/ t.hang THEN t
    ELSE [deallocate(t, n) EXCEPT !.size = t.size - 1]

\* erase (iterator), after auto const retval = ++pos
erase_node(t, n, retval) ==
    IF n = NULL \/ retval.hang
    THEN walked(t, {n} \cup retval.touched, retval.hang)
    ELSE erased(unlink([walked(t, {n} \cup retval.touched, FALSE)
                          EXCEPT !.it = retval.it], n), n)

\* iterator erase (iterator pos)
erase(t, pos) == erase_node(t, pos.iter, operator_inc(t.mem, pos))

RECURSIVE erase_walk(_, _, _, _)
\* erase (key_type const &), the loop while (true) over n
erase_walk(m, n, key, fuel) ==
    IF n = NULL THEN stopped(n, "null")
    ELSE IF fuel = 0 THEN stopped(n, "hang")
    ELSE IF key_comp(key, m[n].value)
    THEN IF m[n].left # NULL
         THEN via(n, erase_walk(m, m[n].left, key, fuel - 1))
         ELSE stopped(n, "left")
    ELSE IF key_comp(m[n].value, key)
    THEN IF m[n].right # NULL
         THEN via(n, erase_walk(m, m[n].right, key, fuel - 1))
         ELSE stopped(n, "right")
    ELSE stopped(n, "equal")

\* erase (key_type const &), the ways out of the loop
erase_return(t, w) ==
    IF w.how = "equal"
    THEN [erase(walked(t, w.touched, FALSE), bstree_iterator(w.n, "valid"))
            EXCEPT !.it = singular, !.count = 1]
    ELSE walked(t, w.touched, w.how = "hang")

\* size_type erase (key_type const & key)
erase_key(t, key) == erase_return(t, erase_walk(t.mem, t.root, key, Fuel))

RECURSIVE range_loop(_, _, _, _)
\* erase (first, lst): ++it, on the iterator erase (it) was called with
range_next(t, s, lst, fuel) ==
    range_loop(walked(t, s.touched, s.hang), s.it, lst, fuel - 1)
range_step(t, it, lst, fuel) ==
    IF NULL \in t.touched \/ t.hang THEN t
    ELSE range_next(t, operator_inc(t.mem, it), lst, fuel)

\* erase (first, lst): for (auto it = first; it != last; ++it) erase (it);
\* return last;
range_loop(t, it, lst, fuel) ==
    IF NULL \in t.touched \/ t.hang THEN t
    ELSE IF fuel = 0 THEN [t EXCEPT !.hang = TRUE]
    ELSE IF iter_eq(it, lst) THEN [t EXCEPT !.it = lst]
    ELSE range_step(erase(t, it), it, lst, fuel)

\* iterator erase (const_iterator first, const_iterator last)
erase_range(t, first, lst) == range_loop(t, first, lst, WalkFuel)

\* void clear (void) noexcept
clear(t) ==
    reset_root([t EXCEPT !.size = 0, !.bgn = singular, !.end = singular],
               NULL)

----------------------------------------------------------------------------
\* Copy construction

\* The blocks the allocator will hand out, in order; nullptr stands for the
\* allocation that finds no block left: allocate (1) throws std::bad_alloc.
take(xs) == IF xs = <<>> THEN NULL ELSE Head(xs)
rest(xs) == IF xs = <<>> THEN <<>> ELSE Tail(xs)

\* A step count the copy of a tree needs only if its walk cycles.
CopyFuel == 3 * (MaxNodes + 1)

\* result_walk->left = node_create (result_walk, a, copy_walk->left->value);
\* (side is "left" or "right")
copy_child(t, copy_walk, result_walk, side, x) ==
    IF x = NULL
    THEN [walked(t, {copy_walk, result_walk, t.mem[copy_walk][side]}, FALSE)
            EXCEPT !.thrown = TRUE]
    ELSE [node_create(walked(t, {copy_walk, result_walk,
                                 t.mem[copy_walk][side]}, FALSE),
                      x, t.mem[t.mem[copy_walk][side]].value, result_walk)
            EXCEPT !.mem[result_walk][side] = x]

RECURSIVE copy_loop(_, _, _, _, _)

\* copy_walk = copy_walk->left; result_walk = result_walk->left;
copy_descend(t, copy_walk, result_walk, side, xs, fuel) ==
    IF t.thrown THEN t
    ELSE copy_loop(t, t.mem[copy_walk][side], t.mem[result_walk][side], xs,
                   fuel)

\* copy_from, the loop while (copy_walk != nullptr)
copy_loop(t, copy_walk, result_walk, xs, fuel) ==
    IF copy_walk = NULL THEN t
    ELSE IF fuel = 0 THEN [t EXCEPT !.hang = TRUE]
    ELSE IF result_walk = NULL THEN walked(t, {copy_walk, NULL}, FALSE)
    ELSE IF t.mem[copy_walk].left # NULL /\ t.mem[result_walk].left = NULL
    THEN copy_descend(copy_child(t, copy_walk, result_walk, "left", take(xs)),
                      copy_walk, result_walk, "left", rest(xs), fuel - 1)
    ELSE IF t.mem[copy_walk].right # NULL /\ t.mem[result_walk].right = NULL
    THEN copy_descend(copy_child(t, copy_walk, result_walk, "right",
                                 take(xs)),
                      copy_walk, result_walk, "right", rest(xs), fuel - 1)
    ELSE copy_loop(walked(t, {copy_walk, result_walk}, FALSE),
                   t.mem[copy_walk].parent, t.mem[result_walk].parent, xs,
                   fuel - 1)

\* static node_handle copy_from (node_handle const & nh, node_allocator & a):
\* the handle returned is the root of t
copy_from(t, nh, xs) ==
    IF nh = NULL THEN t
    ELSE IF xs = <<>> THEN [walked(t, {nh}, FALSE) EXCEPT !.thrown = TRUE]
    ELSE copy_loop([node_create(walked(t, {nh}, FALSE), take(xs),
                                t.mem[nh].value, NULL)
                      EXCEPT !.root = take(xs)],
                   nh, take(xs), rest(xs), CopyFuel)

\* set_iterators, the branch _tree_size > 0, given the two descents; _begin = l
\* assigns the node only
set_descended(t, l, r) ==
    [walked(t, (Range(l) \cup Range(r)) \ {HANG},
            Last(l) = HANG \/ Last(r) = HANG)
       EXCEPT !.bgn = assign_node(t.bgn, Last(l)),
              !.end = bstree_iterator(Last(r), "after_end")]

\* void set_iterators (void) noexcept
set_iterators(t) ==
    IF t.size > 0
    THEN IF t.root = NULL THEN walked(t, {NULL}, FALSE)
         ELSE set_descended(t, leftmost(t.mem, t.root, Fuel),
                            rightmost(t.mem, t.root, Fuel))
    ELSE [t EXCEPT !.bgn = bstree_iterator(NULL, "valid"),
                   !.end = bstree_iterator(NULL, "valid")]

\* bstree (bstree const & other, Allocator const & alloc): the new tree on
\* the heap m, its iterators default-constructed before the body runs
copy_construct(m, alloc, o, xs) ==
    set_iterators([copy_from(bstree(m, alloc, NULL, 0, singular, singular),
                             o.root, xs)
                     EXCEPT !.size = o.size])

----------------------------------------------------------------------------
\* Copy assignment

\* if (propogate_on_copy_assign::value) {
\*     if (this->_node_alloc != other._node_alloc) this->_tree_root.reset ();
\*     this->_node_alloc = other._node_alloc; }
\* propagate is the trait of the allocator type, differ the outcome of !=
assign_reset(t, propagate, differ) ==
    IF propagate /\ differ THEN reset_root(t, NULL) ELSE t

\* this->_tree_root = copy_from (..), c being what copy_from made, and the
\* two statements after it.  An exception of node_create destroys the handle
\* result of copy_from, whose deleter tree_delete releases the nodes made so
\* far, and leaves operator= there; otherwise the handle is moved into
\* _tree_root and the old root goes to the deleter.
assign_copied(t, c, o) ==
    IF c.thrown THEN [tree_delete(c, c.root, 0) EXCEPT !.root = t.root]
    ELSE set_iterators([tree_delete(c, t.root, 0) EXCEPT !.size = o.size])

\* operator=, from the call of copy_from on
assign_from(t, o, xs) ==
    assign_copied(t, copy_from([t EXCEPT !.root = NULL], o.root, xs), o)

\* bstree & operator= (bstree const & other)
copy_assign(t, o, xs, propagate, differ) ==
    assign_from(assign_reset(t, propagate, differ), o, xs)

----------------------------------------------------------------------------
\* The calls that create a node, made when allocate (1) throws std::bad_alloc

\* insert, the ways out of the loop: node_create throws inside insert_left /
\* insert_right, before the link of the parent is written
insert_thrown(t, w) ==
    IF w.how = "equal" THEN make_pair(walked(t, w.touched, FALSE), w.n, FALSE)
    ELSE [walked(t, w.touched, w.how = "hang")
            EXCEPT !.thrown = w.how \in {"left", "right"}]

\* std::pair <iterator, bool> insert (value_type const & value); in make_root
\* node_create throws before _tree_root.reset
insert_throws(t, value) ==
    IF t.size = 0 THEN [t EXCEPT !.thrown = TRUE]
    ELSE insert_thrown(t, insert_walk(t.mem, t.root, value, Fuel))

\* emplace and emplace_hint: node_create comes before everything else
emplace_throws(t) == [t EXCEPT !.thrown = TRUE]

\* iterator insert_at (iterator pos, value_type const & value), the asserts
\* compiled out: node_create throws inside insert_left / insert_right
insert_at_throws(t, pos, value) ==
    IF key_comp(value, t.mem[pos.iter].value)
           \/ key_comp(t.mem[pos.iter].value, value)
    THEN [walked(t, {pos.iter}, FALSE) EXCEPT !.thrown = TRUE]
    ELSE [walked(t, {pos.iter}, FALSE) EXCEPT !.it = pos]

\* insert (hint, value) from the call of insert_at on
hint_thrown(t, w, value) ==
    IF w.done THEN walked(t, w.touched, w.hang)
    ELSE insert_at_throws(walked(t, w.touched, FALSE), w.it, value)

\* iterator insert (const_iterator hint, value_type const & value)
insert_hint_throws(t, hint, value) ==
    hint_thrown(t, hint_walk(t.mem, t.bgn, t.end, hint, value), value)

----------------------------------------------------------------------------
\* Read-only access and the comparison of two trees

\* const_iterator begin (void) const: const_iterator {this->_begin._iter}
const_begin(t) == bstree_iterator(t.bgn.iter, "valid")

\* const_iterator end (void) const: const_iterator {this->_end._iter}
const_end(t) == bstree_iterator(t.end.iter, "valid")

\* What a comparison gives: its result, the addresses dereferenced, and
\* whether it never ends.
compared(result, touched, hang) ==
    [result |-> result, touched |-> touched, hang |-> hang]
seen(touched, c) == [c EXCEPT !.touched = c.touched \cup touched]

RECURSIVE equal(_, _, _, _, _)
\* ++first1, ++first2 in the loop below
equal_step(m, s1, last1, s2, fuel) ==
    IF s1.hang \/ s2.hang
    THEN compared(FALSE, s1.touched \cup s2.touched, TRUE)
    ELSE seen(s1.touched \cup s2.touched,
              equal(m, s1.it, last1, s2.it, fuel - 1))

\* std::equal (first1, last1, first2):
\* for (; first1 != last1; ++first1, ++first2)
\*     if (!(*first1 == *first2)) return false;
\* return true;
equal(m, first1, last1, first2, fuel) ==
    IF iter_eq(first1, last1) THEN compared(TRUE, {}, FALSE)
    ELSE IF fuel = 0 THEN compared(FALSE, {}, TRUE)
    ELSE IF first1.iter = NULL \/ first2.iter = NULL
    THEN compared(FALSE, {NULL}, FALSE)
    ELSE IF m[first1.iter].value # m[first2.iter].value
    THEN compared(FALSE, {first1.iter, first2.iter}, FALSE)
    ELSE seen({first1.iter, first2.iter},
              equal_step(m, operator_inc(m, first1), last1,
                         operator_inc(m, first2), fuel))

\* bool operator== (bstree const & lhs, bstree const & rhs)
tree_equal(m, lhs, rhs) ==
    IF lhs.size # rhs.size THEN compared(FALSE, {}, FALSE)
    ELSE equal(m, const_begin(lhs), const_end(lhs), const_begin(rhs), WalkFuel)

RECURSIVE lexicographical_compare(_, _, _, _, _, _)
\* ++first1, ++first2 in the loop below
lexicographical_step(m, s1, last1, s2, last2, fuel) ==
    IF s1.hang \/ s2.hang
    THEN compared(FALSE, s1.touched \cup s2.touched, TRUE)
    ELSE seen(s1.touched \cup s2.touched,
              lexicographical_compare(m, s1.it, last1, s2.it, last2,
                                      fuel - 1))

\* std::lexicographical_compare (first1, last1, first2, last2):
\* for (; first1 != last1 && first2 != last2; ++first1, ++first2) {
\*     if (*first1 < *first2) return true;
\*     if (*first2 < *first1) return false;
\* }
\* return first1 == last1 && first2 != last2;
lexicographical_compare(m, first1, last1, first2, last2, fuel) ==
    IF iter_eq(first1, last1) \/ iter_eq(first2, last2)
    THEN compared(iter_eq(first1, last1) /\ ~iter_eq(first2, last2), {},
                  FALSE)
    ELSE IF fuel = 0 THEN compared(FALSE, {}, TRUE)
    ELSE IF first1.iter = NULL \/ first2.iter = NULL
    THEN compared(FALSE, {NULL}, FALSE)
    ELSE IF m[first1.iter].value # m[first2.iter].value
    THEN compared(m[first1.iter].value < m[first2.iter].value,
                  {first1.iter, first2.iter}, FALSE)
    ELSE seen({first1.iter, first2.iter},
              lexicographical_step(m, operator_inc(m, first1), last1,
                                   operator_inc(m, first2), last2, fuel))

\* bool operator< (bstree const & lhs, bstree const & rhs)
tree_less(m, lhs, rhs) ==
    lexicographical_compare(m, const_begin(lhs), const_end(lhs),
                            const_begin(rhs), const_end(rhs), WalkFuel)

----------------------------------------------------------------------------
\* Sorting (src/sorting): a range is a sequence of elements, index [i] of the
\* code being the element i + 1 of the sequence.  An element is a key, which
\* comp compares, and a tag, which tells elements of equal keys apart.

\* comp (a, b): std::less on the keys
comp(a, b) == a.key < b.key

\* index [i], index [i] = x, std::swap (index [i], index [j])
at(a, i) == a[i + 1]
put(a, i, x) == [a EXCEPT ![i + 1] = x]
swap(a, i, j) == [a EXCEPT ![i + 1] = a[j + 1], ![j + 1] = a[i + 1]]

\* insertionsort with an inner loop that moves nothing
insertion_unmoved(a, j) == a

RECURSIVE insertion_inner(_, _)
\* for (auto j = i; j > 0 && comp (index [j], index [j - 1]); --j)
\*     std::swap (index [j], index [j - 1]);
insertion_inner(a, j) ==
    IF j > 0 /\ comp(at(a, j), at(a, j - 1))
    THEN insertion_inner(swap(a, j, j - 1), j - 1)
    ELSE a

RECURSIVE insertion_outer(_, _)
\* for (std::size_t i = 1; i < length; ++i), length being last - first
insertion_outer(a, i) ==
    IF i < Len(a) THEN insertion_outer(insertion_inner(a, i), i + 1) ELSE a

\* void insertionsort (RandomIt first, RandomIt last, Compare comp)
insertionsort(a) == insertion_outer(a, 1)

\* The gap sequences of shellsort.hpp, and the one of blocksort.hpp.
curia01_seq == <<701, 301, 132, 57, 23, 10, 4, 1>>
tokuda92_seq == <<1182, 525, 233, 103, 46, 20, 9, 4, 1>>
sedgewick86_seq == <<1073, 281, 77, 23, 8, 1>>
curia_gap_sequence == <<23, 10, 4, 1>>

\* enum class shellseq
shellseq == {"curia01", "tokuda92", "sedgewick86"}

\* the inner for loop that leaves the range as it is
gap_unshifted(a, tmp, j, g) == a

RECURSIVE gap_shift(_, _, _, _)
\* for (j = i; j >= g && comp (tmp, index [j - g]); j -= g)
\*     index [j] = index [j - g];
\* index [j] = tmp;
gap_shift(a, tmp, j, g) ==
    IF j >= g /\ comp(tmp, at(a, j - g))
    THEN gap_shift(put(a, j, at(a, j - g)), tmp, j - g, g)
    ELSE put(a, j, tmp)

RECURSIVE inner_loop(_, _, _)
\* for (std::size_t i = g; i < length; ++i) { auto const tmp {index [i]}; .. }
inner_loop(a, g, i) ==
    IF i < Len(a) THEN inner_loop(gap_shift(a, at(a, i), i, g), g, i + 1)
    ELSE a

RECURSIVE gap_loop(_, _)
\* for (std::size_t g : seq) inner_loop (g);
gap_loop(a, seq) ==
    IF seq = <<>> THEN a
    ELSE gap_loop(inner_loop(a, Head(seq), Head(seq)), Tail(seq))

\* void shellsort (RandomIt first, RandomIt last, Compare comp,
\*                 enum shellseq seq), the switch
shellsort(a, seq) ==
    IF seq = "curia01" THEN gap_loop(a, curia01_seq)
    ELSE IF seq = "tokuda92" THEN gap_loop(a, tokuda92_seq)
    ELSE gap_loop(a, sedgewick86_seq)

RECURSIVE bit_or(_, _)
\* x | y on unsigned integers
bit_or(x, y) ==
    IF x = 0 THEN y
    ELSE IF y = 0 THEN x
    ELSE (IF x % 2 = 1 \/ y % 2 = 1 THEN 1 ELSE 0)
             + 2 * bit_or(x \div 2, y \div 2)

\* rl |= rl >> k
RECURSIVE shifted(_, _)
shifted(rl, k) == IF k = 0 \/ rl = 0 THEN rl ELSE shifted(rl \div 2, k - 1)
smear(rl, k) == bit_or(rl, shifted(rl, k))

\* rl - (rl >> 1)
top_bit(rl) == rl - (rl \div 2)

\* std::size_t const rl_pow2 = (rl |= rl >> 1, .., rl |= rl >> 32,
\*                              rl - (rl >> 1));
rl_pow2(rangelen) ==
    top_bit(smear(smear(smear(smear(smear(smear(rangelen, 1), 2), 4), 8), 16),
                  32))

\* static_cast <std::size_t> (b * scale), scale being rangelen / rl_pow2 in
\* double: the division by a power of two and the product are exact for
\* the lengths of the model, so that the cast gives the integer quotient
scaled(b, rangelen) == (b * rangelen) \div rl_pow2(rangelen)

\* The elements [s, e) of a, and a with b in their place.
block(a, s, e) == SubSeq(a, s + 1, e)
within(a, s, e, b) == SubSeq(a, 1, s) \o b \o SubSeq(a, e + 1, Len(a))

\* static void shellsort (RandomIt first, RandomIt last, Compare comp) of
\* blocksort.hpp, on [block_start, block_end)
block_shellsort(a, s, e) ==
    within(a, s, e, gap_loop(block(a, s, e), curia_gap_sequence))

RECURSIVE sort_blocks(_, _, _)
\* for (std::size_t b = 0; b < rl_pow2; b += 16)
\*     shellsort (block_start, block_end, comp);
sort_blocks(a, b, n) ==
    IF b < rl_pow2(n)
    THEN sort_blocks(block_shellsort(a, scaled(b, n), scaled(b + 16, n)),
                     b + 16, n)
    ELSE a

\* std::rotate (range_start, range_mid, range_end)
rotate(a, s, m, e) == within(a, s, e, block(a, m, e) \o block(a, s, m))

RECURSIVE merged(_, _)
\* The stable merge of two sorted ranges: an element of the second goes
\* first only if it is less than the one of the first.
merged(l, r) ==
    IF l = <<>> THEN r
    ELSE IF r = <<>> THEN l
    ELSE IF comp(Head(r), Head(l)) THEN <<Head(r)>> \o merged(l, Tail(r))
    ELSE <<Head(l)>> \o merged(Tail(l), r)

\* std::inplace_merge (range_start, range_mid, range_end, comp)
inplace_merge(a, s, m, e) ==
    within(a, s, e, merged(block(a, s, m), block(a, m, e)))

\* if (comp (*(range_end - 1), *range_start)) std::rotate (..);
\* else if (comp (*range_mid, *(range_mid - 1))) std::inplace_merge (..);
merge_step(a, s, m, e) ==
    IF comp(at(a, e - 1), at(a, s)) THEN rotate(a, s, m, e)
    ELSE IF comp(at(a, m), at(a, m - 1)) THEN inplace_merge(a, s, m, e)
    ELSE a

RECURSIVE merge_pass(_, _, _, _)
\* for (std::size_t merge = 0; merge < rl_pow2; merge += len * 2)
merge_pass(a, len, merge, n) ==
    IF merge < rl_pow2(n)
    THEN merge_pass(merge_step(a, scaled(merge, n), scaled(merge + len, n),
                               scaled(merge + 2 * len, n)),
                    len, merge + 2 * len, n)
    ELSE a

RECURSIVE merge_passes(_, _, _)
\* for (std::size_t len = 16; len < rl_pow2; len *= 2)
merge_passes(a, len, n) ==
    IF len < rl_pow2(n) THEN merge_passes(merge_pass(a, len, 0, n), 2 * len, n)
    ELSE a

\* void blocksort (RandomIt first, RandomIt last, Compare comp); a is the
\* memory from first on, n the length of the range
blocksort(a, n) == merge_passes(sort_blocks(a, 0, n), 16, n)

\* The ends of the blocks that blocksort hands to its shellsort:
\* first + static_cast <std::size_t> ((b + 16) * scale) for b = 0, 16, ..
block_ends(n) ==
    IF n = 0 THEN {}
    ELSE {scaled(b + 16, n) : b \in {c \in 0 .. (rl_pow2(n) - 1) : c % 16 = 0}}

\* The positions from first on that blocksort reads and writes.
blocks_end(n) ==
    IF n = 0 THEN 0
    ELSE CHOOSE e \in block_ends(n) : \A f \in block_ends(n) : f <= e

----------------------------------------------------------------------------
\* The program: one tree, and a client that calls its member functions

\* bstree (void): no root, size 0, singular iterators
Init ==
    /\ mem = [a \in Addr |-> no_node]
    /\ _node_alloc = {}
    /\ _tree_root = NULL
    /\ _tree_size = 0
    /\ _begin = singular
    /\ _end = singular
    /\ status = "ok"
    /\ last = [op |-> "bstree", key |-> 0, it |-> singular, flag |-> FALSE,
               count |-> 0]
    /\ other = [copied |-> FALSE, root |-> NULL, size |-> 0, bgn |-> singular,
                end |-> singular, calls |-> 0]
    /\ sorting = given(<<>>)

\* *this as the member functions see it
this == bstree(mem, _node_alloc, _tree_root, _tree_size, _begin, _end)

\* The content of a deallocated block matters only while a link of a tree
\* still leads to it; the rest is forgotten.
forget(m, alloc, roots) ==
    [a \in Addr |->
        IF a \in (UNION {reach(m, root, {}) : root \in roots} \cup alloc)
                     \ {NULL}
        THEN m[a]
        ELSE no_node]

\* The call never returns.
Halt(how, op, key) ==
    /\ status' = how
    /\ last' = [op |-> op, key |-> key, it |-> singular, flag |-> FALSE,
                count |-> 0]
    /\ UNCHANGED <<mem, _node_alloc, _tree_root, _tree_size, _begin, _end,
                   other, sorting>>

\* The call returns r.
Return(r, op, key) ==
    /\ mem' = forget(r.mem, r.alloc,
                     {r.root, IF op = "copy" THEN _tree_root ELSE other.root})
    /\ _node_alloc' = r.alloc
    /\ _tree_root' = r.root
    /\ _tree_size' = r.size
    /\ _begin' = r.bgn
    /\ _end' = r.end
    /\ status' = IF r.ub THEN "undefined" ELSE "ok"
    /\ last' = [op |-> op, key |-> key, it |-> r.it, flag |-> r.flag,
                count |-> r.count]
    /\ other' = IF op = "copy"
                THEN [copied |-> TRUE, root |-> _tree_root,
                      size |-> _tree_size, bgn |-> _begin, end |-> _end,
                      calls |-> 0]
                ELSE IF other.copied
                THEN [other EXCEPT !.calls = other.calls + 1]
                ELSE other
    /\ UNCHANGED sorting

\* The outcome of a call computed as r: a dereference of nullptr ends the
\* program, a loop without exit hangs it, a use of a deallocated block
\* either ends it or goes unnoticed.
Commit(r, op, key) ==
    IF NULL \in r.touched THEN Halt("crashed", op, key)
    ELSE IF r.hang THEN Halt("hung", op, key)
    ELSE \/ r.ub /\ Halt("crashed", op, key)
         \/ Return(r, op, key)

\* The blocks allocate (1) may return: any free block some pointer still
\* leads to, or the first of those no pointer leads to (these are
\* indistinguishable).
Pointed ==
    {_tree_root, _begin.iter, _end.iter, last.it.iter, other.root,
     other.bgn.iter, other.end.iter}
        \cup {mem[a].left : a \in Nodes}
        \cup {mem[a].right : a \in Nodes}
        \cup {mem[a].parent : a \in Nodes}
Unused == (Nodes \ _node_alloc) \ Pointed
FreeBlocks ==
    ((Nodes \ _node_alloc) \ Unused)
        \cup {a \in Unused : \A c \in Unused : a <= c}

\* allocate (1) returns one of the free blocks; with none left the call can
\* be made only if it does not allocate.
Blocks == IF FreeBlocks = {} THEN {NULL} ELSE FreeBlocks
Call(r, x, op, key) == (r.allocs => x # NULL) /\ Commit(r, op, key)

\* t.insert (k)
Insert(k) ==
    /\ status = "ok"
    /\ \E x \in Blocks : Call(insert(this, k, x), x, "insert", k)

\* t.emplace (k)
Emplace(k) ==
    /\ status = "ok"
    /\ \E x \in Blocks : Call(emplace(this, k, x), x, "emplace", k)

\* auto pos = t.find (k); if (pos != t.end ()) t.erase (pos);
erase_found(f) ==
    IF NULL \in f.touched \/ f.hang \/ iter_eq(f.it, f.end) THEN f
    ELSE erase(f, f.it)
EraseFound(k) ==
    /\ status = "ok"
    /\ Commit(erase_found(find_impl(this, k)), "erase", k)

\* if (!t.empty ()) t.erase (t.begin ());
EraseBegin ==
    /\ status = "ok"
    /\ _tree_size # 0
    /\ Commit(erase(this, _begin), "erase_begin", 0)

\* t.erase (k)
EraseKey(k) ==
    /\ status = "ok"
    /\ Commit(erase_key(this, k), "erase_key", k)

\* t.clear ()
Clear ==
    /\ status = "ok"
    /\ Commit(clear(this), "clear", 0)

\* The orders in which the allocator may hand out the free blocks (those no
\* pointer leads to are indistinguishable and go in ascending order).
RECURSIVE orders(_)
orders(S) ==
    IF S = {} THEN {<<>>}
    ELSE UNION {{<<x>> \o xs : xs \in orders(S \ {x})} : x \in S}
AllocOrders ==
    {xs \in orders(Nodes \ _node_alloc) :
        \A i, j \in DOMAIN xs :
            (i < j /\ xs[i] \in Unused /\ xs[j] \in Unused) => xs[i] < xs[j]}

\* bstree b (t); from here on the calls are made on b, and t is left alone
Copy ==
    /\ status = "ok"
    /\ ~other.copied
    /\ \E xs \in AllocOrders :
          /\ ~copy_construct(mem, _node_alloc, this, xs).thrown
          /\ Commit(copy_construct(mem, _node_alloc, this, xs), "copy", 0)

Next ==
    \/ \E k \in Keys : Insert(k)
    \/ \E k \in Keys : Emplace(k)
    \/ \E k \in Keys : EraseFound(k)
    \/ EraseBegin
    \/ \E k \in Keys : EraseKey(k)
    \/ Clear

Spec == Init /\ [][Next]_vars

\* A client that builds a tree by inserts and erasures, copy-constructs a
\* second tree from it, and then calls insert, erase and clear on the copy.
Build ==
    /\ ~other.copied
    /\ \/ \E k \in Keys : Insert(k)
       \/ \E k \in Keys : EraseFound(k)
Mutate ==
    /\ other.copied
    /\ other.calls < MaxCalls
    /\ \/ \E k \in Keys : Insert(k)
       \/ \E k \in Keys : EraseFound(k)
       \/ Clear
NextCopy == Build \/ Copy \/ Mutate

SpecCopy == Init /\ [][NextCopy]_vars

\* The nodes a hint can be on: those of the tree, and those of begin () and
\* end ().
Hints == (reach(mem, _tree_root, {}) \cap _node_alloc)
             \cup {_begin.iter, _end.iter}

\* t.insert (hint, k); a build that keeps the asserts ends where one fails
InsertHint(k) ==
    /\ status = "ok"
    /\ \E hint \in Hints, x \in Blocks :
          \/ /\ asserted(mem, hint_walk(mem, _begin, _end, hint, k), k)
             /\ Halt("crashed", "insert_hint", k)
          \/ Call(insert_hint(this, hint, k, x), x, "insert_hint", k)

\* The trees built by inserts, plain and hinted.
NextHint ==
    \/ \E k \in Keys : Insert(k)
    \/ \E k \in Keys : InsertHint(k)
SpecHint == Init /\ [][NextHint]_vars

\* The iterators a caller has on the tree: those on its nodes, and end ().
Positions ==
    {bstree_iterator(n, "valid") : n \in reach(mem, _tree_root, {})
                                         \cap _node_alloc}
        \cup {_end}

\* The key a position is on; end () is behind every key.
key_at(pos) == IF pos.state = "valid" THEN mem[pos.iter].value ELSE MaxKey + 1

\* t.erase (first, last), last not before first
EraseRange ==
    /\ status = "ok"
    /\ \E first, lst \in Positions :
          /\ key_at(first) <= key_at(lst)
          /\ Commit(erase_range(this, first, lst), "erase_range",
                    key_at(first))

\* The trees built by inserts, and ranges erased from them.
NextRange ==
    \/ \E k \in Keys : Insert(k)
    \/ EraseRange
SpecRange == Init /\ [][NextRange]_vars

\* The scenario: the keys of Script are inserted in order into an empty
\* tree, whatever blocks the allocator hands out, then the first of them is
\* erased.
script_next ==
    IF last.op = "bstree" THEN 1
    ELSE (CHOOSE i \in DOMAIN Script : Script[i] = last.key) + 1
ScriptBlocks == (Addr \ {NULL}) \ _node_alloc
ScriptInsert ==
    /\ status = "ok"
    /\ last.op \in {"bstree", "insert"}
    /\ script_next <= Len(Script)
    /\ \E x \in ScriptBlocks :
          Commit(insert(this, Script[script_next], x), "insert",
                 Script[script_next])
ScriptErase ==
    /\ status = "ok"
    /\ last.op = "insert"
    /\ script_next > Len(Script)
    /\ Commit(erase_found(find_impl(this, Script[1])), "erase", Script[1])
NextScript == ScriptInsert \/ ScriptErase
SpecScript == Init /\ [][NextScript]_vars

\* The call is left by std::bad_alloc, which the client does not catch: the
\* program ends with the tree as r.
Raise(r, op, key) ==
    /\ mem' = forget(r.mem, r.alloc, {r.root, other.root})
    /\ _node_alloc' = r.alloc
    /\ _tree_root' = r.root
    /\ _tree_size' = r.size
    /\ _begin' = r.bgn
    /\ _end' = r.end
    /\ status' = IF r.ub THEN "undefined" ELSE "thrown"
    /\ last' = [op |-> op, key |-> key, it |-> singular, flag |-> TRUE,
                count |-> 0]
    /\ UNCHANGED <<other, sorting>>

\* The outcome of a call computed as r when allocate (1) may throw.
Outcome(r, op, key) ==
    IF r.thrown /\ NULL \notin r.touched /\ ~r.hang
    THEN \/ r.ub /\ Halt("crashed", op, key)
         \/ Raise(r, op, key)
    ELSE Commit(r, op, key)

\* The client below makes its calls until the assignment has returned.
Running == status = "ok" /\ last.op # "assign"

\* t.insert (k), a call that comes to allocate (1), which throws
InsertThrows(k) ==
    /\ Running
    /\ insert_throws(this, k).thrown
    /\ Outcome(insert_throws(this, k), "insert_throws", k)

\* t.emplace (k), allocate (1) throwing
EmplaceThrows(k) ==
    /\ Running
    /\ Outcome(emplace_throws(this), "emplace_throws", k)

\* t.emplace_hint (hint, k), allocate (1) throwing
EmplaceHintThrows(k) ==
    /\ Running
    /\ Outcome(emplace_throws(this), "emplace_hint_throws", k)

\* t.insert (hint, k), a call that comes to allocate (1), which throws
InsertHintThrows(k) ==
    /\ Running
    /\ \E hint \in Hints :
          /\ insert_hint_throws(this, hint, k).thrown
          /\ Outcome(insert_hint_throws(this, hint, k), "insert_hint_throws",
                     k)

\* The blocks the allocator hands out before it throws.
AllocPrefixes ==
    UNION {{SubSeq(xs, 1, n) : n \in 0 .. Len(xs)} : xs \in AllocOrders}

\* b = t; for the tree b copy-constructed from t; the allocator type may
\* propagate on copy assignment or not, and the two allocators may compare
\* equal or not
Assign ==
    /\ Running
    /\ other.copied
    /\ \E xs \in AllocPrefixes, propagate, differ \in BOOLEAN :
          Outcome(copy_assign(this, other, xs, propagate, differ), "assign",
                  0)

\* t.insert (k), before the copy is made
Fill ==
    /\ ~other.copied
    /\ \E k \in Keys : Insert(k)

\* b.insert (k) and b.clear (), before the assignment
Grow ==
    /\ Running
    /\ other.copied
    /\ other.calls < MaxCalls
    /\ \/ \E k \in Keys : Insert(k)
       \/ Clear

\* A client whose allocator can refuse: it builds a tree by inserts,
\* copy-constructs a second one from it, inserts into the copy or clears it,
\* and assigns the first tree to it.
NextThrow ==
    \/ Fill
    \/ Copy
    \/ Grow
    \/ Assign
    \/ \E k \in Keys : InsertThrows(k)
    \/ \E k \in Keys : EmplaceThrows(k)
    \/ \E k \in Keys : EmplaceHintThrows(k)
    \/ \E k \in Keys : InsertHintThrows(k)
SpecThrow == Init /\ [][NextThrow]_vars

----------------------------------------------------------------------------
\* The program that sorts: one range, handed once to one sorting function

\* The ranges handed over: every range of up to MaxLen elements with keys
\* 1..MaxRank, and the ranges of the lengths LongLens with the key 2
\* everywhere but in at most two places, which hold the key 1.
MaxLen == 5
MaxRank == 3
Ranks == 1 .. MaxRank
LongLens == {9, 11, 16, 17, 32, 33}
ShortRanges == UNION {[1 .. n -> Ranks] : n \in 0 .. MaxLen}
LongRanges ==
    UNION {{[i \in 1 .. n |-> IF i \in {p, q} THEN 1 ELSE 2] :
               p \in 0 .. n, q \in 0 .. n} : n \in LongLens}

\* The elements of a range of keys: the tag is the place in the input.
elements(ks) == [i \in DOMAIN ks |-> [key |-> ks[i], tag |-> i]]

\* What lies behind the range, as far as blocksort goes: elements of some
\* other range, of the key fill.
behind(a, fill) ==
    a \o [i \in 1 .. (blocks_end(Len(a)) - Len(a)) |->
              [key |-> fill, tag |-> 0]]

\* The tree is not used.
NoTree ==
    /\ mem = [a \in Addr |-> no_node]
    /\ _node_alloc = {}
    /\ _tree_root = NULL
    /\ _tree_size = 0
    /\ _begin = singular
    /\ _end = singular
    /\ status = "ok"
    /\ last = [op |-> "bstree", key |-> 0, it |-> singular, flag |-> FALSE,
               count |-> 0]
    /\ other = [copied |-> FALSE, root |-> NULL, size |-> 0, bgn |-> singular,
                end |-> singular, calls |-> 0]

InitSort ==
    /\ NoTree
    /\ sorting \in {given(elements(ks)) : ks \in ShortRanges \cup LongRanges}

\* The call has returned with the range as b.
Sorted(call, seq, b) ==
    /\ sorting' = [call |-> call, seq |-> seq, input |-> sorting.input,
                   elems |-> b, how |-> "ok"]
    /\ UNCHANGED <<mem, _node_alloc, _tree_root, _tree_size, _begin, _end,
                   status, last, other>>

\* The call has gone beyond the range: the program ends there, or the call
\* returns with the memory from first on as b.
Strayed(call, b) ==
    /\ \/ sorting' = [call |-> call, seq |-> "none", input |-> sorting.input,
                      elems |-> sorting.input, how |-> "crashed"]
       \/ sorting' = [call |-> call, seq |-> "none", input |-> sorting.input,
                      elems |-> SubSeq(b, 1, Len(sorting.input)),
                      how |-> "undefined"]
    /\ UNCHANGED <<mem, _node_alloc, _tree_root, _tree_size, _begin, _end,
                   status, last, other>>

\* dsa::insertionsort (first, last, comp)
InsertionSort ==
    /\ sorting.call = "none"
    /\ Sorted("insertionsort", "none", insertionsort(sorting.input))

\* dsa::shellsort (first, last, comp, seq)
ShellSort(seq) ==
    /\ sorting.call = "none"
    /\ Sorted("shellsort", seq, shellsort(sorting.input, seq))

\* dsa::blocksort (first, last, comp)
BlockSort ==
    /\ sorting.call = "none"
    /\ IF blocks_end(Len(sorting.input)) > Len(sorting.input)
       THEN \E fill \in Ranks :
               Strayed("blocksort",
                       blocksort(behind(sorting.input, fill),
                                 Len(sorting.input)))
       ELSE Sorted("blocksort", "none",
                   blocksort(sorting.input, Len(sorting.input)))

NextSort ==
    \/ InsertionSort
    \/ \E seq \in shellseq : ShellSort(seq)
    \/ BlockSort
SpecSort == InitSort /\ [][NextSort]_vars

\* The trees built by inserts of one key more than the tree holds nodes, and
\* erasures of nodes with two children:
\* auto pos = t.find (k); if (pos != t.end ()) t.erase (pos);
MoreKeys == 1 .. (MaxKey + 1)
two_children(f) ==
    /\ NULL \notin f.touched
    /\ ~f.hang
    /\ ~iter_eq(f.it, f.end)
    /\ mem[f.it.iter].left # NULL
    /\ mem[f.it.iter].right # NULL
EraseTwo(k) ==
    /\ status = "ok"
    /\ two_children(find_impl(this, k))
    /\ Commit(erase_found(find_impl(this, k)), "erase", k)
NextPromote ==
    \/ \E k \in MoreKeys : Insert(k)
    \/ \E k \in MoreKeys : EraseTwo(k)
SpecPromote == Init /\ [][NextPromote]_vars

----------------------------------------------------------------------------
\* What a client can observe of a state

\* The last call returned.
Returned == status \in {"ok", "undefined"}

\* The nodes reachable from the root through child links, and below n.
reachable == reach(mem, _tree_root, {})
subtree(n) == reach(mem, n, {})

\* The node reached from the root by following left (right) links.
min_node == Last(leftmost(mem, _tree_root, Fuel))
max_node == Last(rightmost(mem, _tree_root, Fuel))

\* The calls that are inserts, and those that are erasures.
Inserts == {"insert", "emplace"}
Erasures == {"erase", "erase_begin", "erase_key"}

Increasing(s) == \A i, j \in DOMAIN s : i < j => s[i] < s[j]

RECURSIVE traverse(_, _, _, _)
\* for (auto it = begin; it != end; ++it) visit (*it);  the keys visited,
\* closed by HANG if the loop does not come to end
traverse(m, it, e, fuel) ==
    IF iter_eq(it, e) THEN <<>>
    ELSE IF fuel = 0 \/ it.iter = NULL THEN <<HANG>>
    ELSE <<m[it.iter].value>>
             \o traverse(m, operator_inc(m, it).it, e, fuel - 1)

----------------------------------------------------------------------------
\* Claims

\* C1: after any sequence of insert and erase calls, incrementing an
\* iterator from begin() until it equals end() terminates and visits
\* exactly the stored keys, each once, in strictly increasing order.
C1_TraversalInOrder ==
    (status = "ok" /\ last.op \in {"bstree", "insert"} \cup Erasures)
        => /\ Increasing(traverse(mem, _begin, _end, Fuel))
           /\ Range(traverse(mem, _begin, _end, Fuel))
                  = {mem[n].value : n \in reachable}

\* C2: after any sequence of insert, emplace and erase calls, every node
\* reachable from the root has only smaller keys in its left subtree and
\* only greater keys in its right subtree, and no two reachable nodes hold
\* the same key.
C2_SearchTreeOrder ==
    (Returned /\ last.op # "clear")
        => /\ \A n \in reachable :
                /\ \A a \in subtree(mem[n].left) :
                       key_comp(mem[a].value, mem[n].value)
                /\ \A a \in subtree(mem[n].right) :
                       key_comp(mem[n].value, mem[a].value)
           /\ \A a, b \in reachable : a # b => mem[a].value # mem[b].value

\* C3: after any sequence of insert, emplace, erase and clear calls, size ()
\* is the number of nodes reachable from the root through child links.
C3_SizeCountsNodes == Returned => _tree_size = Cardinality(reachable)

\* C4: after every insert, emplace and erase the parent links are the exact
\* inverse of the child links: the root has no parent, and every child of a
\* reachable node has that node as its parent.
C4_ParentInverse ==
    (status = "ok" /\ last.op \in Inserts \cup Erasures)
        => /\ _tree_root # NULL => mem[_tree_root].parent = NULL
           /\ \A n \in reachable :
                /\ mem[n].left # NULL => mem[mem[n].left].parent = n
                /\ mem[n].right # NULL => mem[mem[n].right].parent = n

\* C5: after every insert or erase that leaves the tree non-empty, begin ()
\* is a valid iterator on the node reached from the root by left links.
C5_BeginIsLeftmost ==
    (status = "ok" /\ last.op \in {"insert"} \cup Erasures /\ _tree_size # 0)
        => _begin = bstree_iterator(min_node, "valid")

\* C6: after every insert or erase that leaves the tree non-empty, end () is
\* an after-end iterator whose node is the one reached from the root by
\* right links.
C6_EndIsRightmost ==
    (status = "ok" /\ last.op \in {"insert"} \cup Erasures /\ _tree_size # 0)
        => _end = bstree_iterator(max_node, "after_end")

\* C7: insert (v) and emplace (v), when a node of the tree already holds v,
\* return (iterator on that node, false) without error and leave size (),
\* the nodes of the tree and their links, begin () and end () unchanged.
C7_DuplicateInsertChangesNothing ==
    [][(/\ status = "ok"
        /\ last'.op \in Inserts
        /\ last'.key \in {mem[n].value : n \in reachable \cap _node_alloc})
           => /\ status' = "ok"
              /\ last'.flag = FALSE
              /\ last'.it.state = "valid"
              /\ last'.it.iter \in reachable \cap _node_alloc
              /\ mem[last'.it.iter].value = last'.key
              /\ _tree_size' = _tree_size
              /\ _tree_root' = _tree_root
              /\ _begin' = _begin
              /\ _end' = _end
              /\ reachable' \cap _node_alloc' = reachable \cap _node_alloc
              /\ \A n \in reachable \cap _node_alloc : mem'[n] = mem[n]]_vars

\* C8: after erase (k) has returned, find (k) equals end ().
C8_ErasedKeyNotFound ==
    (status = "ok" /\ last.op = "erase_key")
        => /\ find_impl(this, last.key).touched \subseteq _node_alloc
           /\ ~find_impl(this, last.key).hang
           /\ iter_eq(find_impl(this, last.key).it, _end)

\* C9: once every key that was inserted has been erased, empty () is true and
\* begin () equals end ().
C9_EmptyAfterErasingAll ==
    (Returned /\ last.op \in Erasures /\ _tree_root = NULL)
        => _tree_size = 0 /\ iter_eq(_begin, _end)

\* C10: on a non-empty tree, decrementing a copy of end () gives a valid
\* iterator on the node that holds the maximum key.
C10_DecrementEndIsMaximum ==
    (status = "ok" /\ last.op \in {"insert"} \cup Erasures /\ _tree_size # 0)
        => operator_dec(mem, _end).it = bstree_iterator(max_node, "valid")

\* C11: on a non-empty tree, incrementing a valid iterator on the maximum
\* element gives an iterator equal to end ().
C11_IncrementMaximumIsEnd ==
    (status = "ok" /\ last.op \in {"insert"} \cup Erasures /\ _tree_size # 0)
        => /\ ~operator_inc(mem, bstree_iterator(max_node, "valid")).hang
           /\ iter_eq(operator_inc(mem, bstree_iterator(max_node, "valid")).it,
                      _end)

\* The links of the tree satisfy the data model: every reachable link leads
\* to an allocated node, parent links invert child links, keys are ordered
\* and unique.
data_model ==
    /\ reachable \subseteq _node_alloc
    /\ _tree_root # NULL => mem[_tree_root].parent = NULL
    /\ \A n \in reachable :
         /\ mem[n].left # NULL => mem[mem[n].left].parent = n
         /\ mem[n].right # NULL => mem[mem[n].right].parent = n
         /\ \A a \in subtree(mem[n].left) :
                key_comp(mem[a].value, mem[n].value)
         /\ \A a \in subtree(mem[n].right) :
                key_comp(mem[n].value, mem[a].value)

\* The nodes of the tree that hold a key less than n's.
before(n) == {p \in reachable : key_comp(mem[p].value, mem[n].value)}

\* The in-order predecessor of n: the node of the greatest key less than n's.
predecessor(n) ==
    CHOOSE p \in before(n) :
        \A q \in before(n) : ~key_comp(mem[p].value, mem[q].value)

\* C12: operator-- terminates on every valid iterator of a tree whose links
\* satisfy the data model, also on a node that is a left child and has no
\* left subtree.
C12_DecrementTerminates ==
    (status = "ok" /\ data_model)
        => \A n \in reachable :
               ~operator_dec(mem, bstree_iterator(n, "valid")).hang

\* C13: decrementing a valid iterator on a node that is not the minimum
\* gives a valid iterator on its in-order predecessor; on the minimum it
\* gives the invalid state with a null node pointer.
C13_DecrementIsPredecessor ==
    (status = "ok" /\ data_model)
        => \A n \in reachable :
               /\ ~operator_dec(mem, bstree_iterator(n, "valid")).hang
               /\ operator_dec(mem, bstree_iterator(n, "valid")).it
                      = IF before(n) = {}
                        THEN [iter |-> NULL, state |-> "invalid"]
                        ELSE bstree_iterator(predecessor(n), "valid")

\* Among the nodes K of heap m: those of greater (smaller) key than n, and
\* the in-order neighbours of n.
later(m, K, n) == {p \in K : key_comp(m[n].value, m[p].value)}
earlier(m, K, n) == {p \in K : key_comp(m[p].value, m[n].value)}
next_of(m, K, n) ==
    CHOOSE p \in later(m, K, n) :
        \A q \in later(m, K, n) : ~key_comp(m[q].value, m[p].value)
prev_of(m, K, n) ==
    CHOOSE p \in earlier(m, K, n) :
        \A q \in earlier(m, K, n) : ~key_comp(m[p].value, m[q].value)

\* ++ and -- on a valid iterator on n give n's neighbours among K: past the
\* greatest the after-end state, before the least invalid and null.
neighbours(m, K, n) ==
    /\ ~operator_inc(m, bstree_iterator(n, "valid")).hang
    /\ operator_inc(m, bstree_iterator(n, "valid")).it
           = IF later(m, K, n) = {} THEN bstree_iterator(n, "after_end")
             ELSE bstree_iterator(next_of(m, K, n), "valid")
    /\ ~operator_dec(m, bstree_iterator(n, "valid")).hang
    /\ operator_dec(m, bstree_iterator(n, "valid")).it
           = IF earlier(m, K, n) = {}
             THEN [iter |-> NULL, state |-> "invalid"]
             ELSE bstree_iterator(prev_of(m, K, n), "valid")

\* C14: erase (pos) invalidates only iterators on the erased node: a valid
\* iterator on any other node still refers to the same key, and ++ and --
\* on it give its in-order neighbours in the resulting tree.
C14_EraseKeepsOtherIterators ==
    [][(/\ status = "ok"
        /\ data_model
        /\ last'.op \in Erasures
        /\ _node_alloc' # _node_alloc
        /\ status' = "ok")
           => \A n \in reachable \cap _node_alloc' :
                  /\ mem'[n].value = mem[n].value
                  /\ neighbours(mem', reachable \cap _node_alloc', n)]_vars

\* The nodes of the tree the copy was made from.
original == reach(mem, other.root, {})

\* C15: after copy-constructing tree B from tree A the node sets of A and B
\* are disjoint, and insert, erase and clear calls on B leave A's node
\* graph, size (), begin () and end () unchanged.
C15_CopyIsIndependent ==
    /\ []((Returned /\ last.op = "copy") => original \cap reachable = {})
    /\ [][(/\ status = "ok"
           /\ other.copied
           /\ last'.op \in {"insert", "erase", "clear"}
           /\ Returned')
              => /\ original' = original
                 /\ original \cap _node_alloc' = original \cap _node_alloc
                 /\ \A n \in original : mem'[n] = mem[n]
                 /\ other'.size = other.size
                 /\ other'.bgn = other.bgn
                 /\ other'.end = other.end]_vars


\* The nodes of the tree whose key is not less than k, and those whose key
\* is greater than k.
not_less(k) == {n \in reachable : ~key_comp(mem[n].value, k)}
greater(k) == {n \in reachable : key_comp(k, mem[n].value)}

\* The call that gave r ended, without touching anything but live nodes, on
\* a valid iterator on the node of the smallest key in S, or on an iterator
\* equal to end () if S is empty.
bound_is(r, S) ==
    /\ ~r.hang
    /\ r.touched \subseteq _node_alloc
    /\ IF S = {} THEN iter_eq(r.it, _end)
       ELSE /\ r.it.state = "valid"
            /\ r.it.iter \in S
            /\ \A q \in S : ~key_comp(mem[q].value, mem[r.it.iter].value)

\* C17: on every tree reachable by inserts and erasures and for every key,
\* lower_bound (key) terminates and returns a valid iterator on the smallest
\* stored element not less than key, or an iterator equal to end () when
\* every stored element is less than key.
C17_LowerBound ==
    (status = "ok" /\ last.op \in {"bstree", "insert", "erase"})
        => \A k \in Keys : bound_is(lower_bound_impl(this, k), not_less(k))

\* C18: on every tree reachable by inserts and erasures and for every key,
\* upper_bound (key) terminates and returns a valid iterator on the smallest
\* stored element greater than key, or an iterator equal to end () when no
\* stored element is greater than key.
C18_UpperBound ==
    (status = "ok" /\ last.op \in {"bstree", "insert", "erase"})
        => \A k \in Keys : bound_is(upper_bound_impl(this, k), greater(k))


\* The call that gave r ended, without touching anything but live nodes, on
\* a valid iterator on a node of the tree that holds v.
lands_on(r, v) ==
    /\ ~r.hang
    /\ r.touched \subseteq _node_alloc
    /\ r.it.state = "valid"
    /\ r.it.iter \in reachable
    /\ mem[r.it.iter].value = v

\* C16: after inserting 5, 3, 8, 1, 4, 7, 9 in that order into an empty tree
\* and erasing 5, size () is 6, find (5) equals end (), lower_bound (6)
\* returns an iterator on 7 and upper_bound (4) returns an iterator on 7.
C16_Scenario ==
    last.op = "erase"
        => /\ status = "ok"
           /\ _tree_size = 6
           /\ ~find_impl(this, 5).hang
           /\ find_impl(this, 5).touched \subseteq _node_alloc
           /\ iter_eq(find_impl(this, 5).it, _end)
           /\ lands_on(lower_bound_impl(this, 6), 7)
           /\ lands_on(upper_bound_impl(this, 4), 7)

\* The scenario has run: the seven keys are in, and 5 was found and erased.
C16_ScenarioRun ==
    /\ last.op = "erase"
    /\ last.key = 5
    /\ status = "ok"
    /\ Cardinality(reachable) = Len(Script) - 1
    /\ lower_bound_impl(this, 6).it.state = "valid"

\* The keys the tree holds.
stored == {mem[n].value : n \in reachable}

\* The call of find that gave f ended, without touching anything but live
\* nodes, on a valid iterator on the node of k that differs from end () if
\* k is stored, and on an iterator equal to end () if not.
found_is(f, k) ==
    /\ ~f.hang
    /\ f.touched \subseteq _node_alloc
    /\ IF k \in stored
       THEN /\ f.it.state = "valid"
            /\ f.it.iter \in reachable
            /\ mem[f.it.iter].value = k
            /\ ~iter_eq(f.it, _end)
       ELSE iter_eq(f.it, _end)

\* C19: on every tree reachable by inserts, plain or hinted, and erasures,
\* find (key) returns a valid iterator on the node holding key, not equal
\* to end (), if and only if key is stored; otherwise, also on an empty
\* tree, it returns an iterator equal to end ().
C19_FindIffStored ==
    (status = "ok" /\ last.op \in {"bstree", "insert", "insert_hint", "erase"})
        => \A k \in Keys : found_is(find_impl(this, k), k)

\* C20: erase (key) returns 1 and removes the element when key is stored;
\* when key is not stored, also on an empty tree, it returns 0 without
\* error and leaves the node graph, size (), begin () and end () unchanged.
C20_EraseKeyCounts ==
    [][(status = "ok" /\ last'.op = "erase_key")
          => /\ status' = "ok"
             /\ IF last'.key \in stored
                THEN /\ last'.count = 1
                     /\ stored' = stored \ {last'.key}
                ELSE /\ last'.count = 0
                     /\ UNCHANGED <<mem, _node_alloc, _tree_root, _tree_size,
                                    _begin, _end>>]_vars

\* The keys of the range from key k up to the position e.
ranged(k, e) == {v \in stored : k <= v /\ v < key_at(e)}

\* C21: erase (first, last) removes exactly the elements of [first, last):
\* afterwards none of those keys is stored, every key outside the range
\* still is, and size () has decreased by the number of elements of the
\* range.
C21_EraseRangeExact ==
    [][(status = "ok" /\ last'.op = "erase_range")
          => /\ status' = "ok"
             /\ stored' = stored \ ranged(last'.key, last'.it)
             /\ _tree_size'
                    = _tree_size - Cardinality(ranged(last'.key, last'.it))]_vars

\* The ordering invariant: below every node the smaller keys are on the
\* left and the greater keys on the right.
ordering ==
    \A n \in reachable :
        /\ \A a \in subtree(mem[n].left) : key_comp(mem[a].value, mem[n].value)
        /\ \A a \in subtree(mem[n].right) :
               key_comp(mem[n].value, mem[a].value)

\* C22: insert (hint, value) with hint a valid iterator of a non-empty tree
\* whose links satisfy the data model: no assertion of insert_at fails; if
\* value is not stored, afterwards it is, size () has grown by 1, every key
\* stored before is still stored and the ordering invariant holds; if value
\* is stored, the iterator on its node is returned and nothing changes.
C22_HintedInsert ==
    [][(status = "ok" /\ data_model /\ _tree_size # 0
        /\ last'.op = "insert_hint")
          => /\ status' = "ok"
             /\ IF last'.key \in stored
                THEN /\ last'.it.state = "valid"
                     /\ mem[last'.it.iter].value = last'.key
                     /\ UNCHANGED <<mem, _node_alloc, _tree_root, _tree_size,
                                    _begin, _end>>
                ELSE /\ stored' = stored \cup {last'.key}
                     /\ _tree_size' = _tree_size + 1
                     /\ ordering']_vars

\* The tree the copy was made from, as the comparison operators see it.
that ==
    [root |-> other.root, size |-> other.size, bgn |-> other.bgn,
     end |-> other.end]

\* The sorted keys of the nodes K, as a sequence.
RECURSIVE sorted(_)
sorted(K) ==
    IF K = {} THEN <<>>
    ELSE <<CHOOSE v \in K : \A w \in K : v <= w>>
             \o sorted(K \ {CHOOSE v \in K : \A w \in K : v <= w})
keys_of(root) == {mem[n].value : n \in reach(mem, root, {})}

\* Sequence a is lexicographically less than sequence b.
lex_less(a, b) ==
    \E i \in 1 .. Len(b) :
        /\ i <= Len(a) + 1
        /\ \A j \in 1 .. (i - 1) : a[j] = b[j]
        /\ i <= Len(a) => a[i] < b[i]

\* Both trees are sound: the nodes of each are live and its own, size ()
\* counts them, begin () is on the leftmost node and end () on a node of the
\* tree.
both_sound ==
    /\ other.copied
    /\ status = "ok"
    /\ data_model
    /\ original \subseteq _node_alloc
    /\ original \cap reachable = {}
    /\ _tree_size = Cardinality(reachable)
    /\ other.size = Cardinality(original)
    /\ _begin.iter = min_node
    /\ other.bgn.iter = Last(leftmost(mem, other.root, Fuel))
    /\ _tree_size # 0 => _end.iter \in reachable
    /\ other.size # 0 => other.end.iter \in original

\* The comparison that gave c ended, touching only live nodes, with result b.
gives(c, b) ==
    /\ ~c.hang
    /\ c.touched \subseteq _node_alloc
    /\ c.result = b

\* C23: operator== on two trees is true if and only if they have the same
\* size and the same in-order key sequence, the maximum of each included.
C23_TreesEqual ==
    both_sound
        => /\ gives(tree_equal(mem, that, this),
                    other.size = _tree_size
                        /\ keys_of(other.root) = keys_of(_tree_root))
           /\ gives(tree_equal(mem, this, that),
                    other.size = _tree_size
                        /\ keys_of(other.root) = keys_of(_tree_root))

\* C24: operator< on two trees is true if and only if the sorted key
\* sequence of the left tree is lexicographically less than that of the
\* right tree.
C24_TreesLess ==
    both_sound
        => /\ gives(tree_less(mem, that, this),
                    lex_less(sorted(keys_of(other.root)),
                             sorted(keys_of(_tree_root))))
           /\ gives(tree_less(mem, this, that),
                    lex_less(sorted(keys_of(_tree_root)),
                             sorted(keys_of(other.root))))

\* C25: on every non-empty tree the const begin () and end () have the same
\* node and the same state as the non-const begin () and end ().
C25_ConstIteratorsAgree ==
    (status = "ok" /\ _tree_size # 0)
        => /\ const_begin(this) = _begin
           /\ const_end(this) = _end

\* C26: after every insert, emplace, erase and clear the nodes allocated and
\* not yet deallocated are exactly the nodes reachable from the root, and
\* size () is their number.
C26_LiveNodesAreTheTree ==
    (Returned /\ last.op \in Inserts \cup Erasures \cup {"clear"})
        => /\ _node_alloc = reachable
           /\ _tree_size = Cardinality(_node_alloc)

\* The nodes of the tree that hold key k.
holders(k) == {n \in reachable : mem[n].value = k}

\* C27: erase (pos) on a tree whose links satisfy the data model releases
\* the storage of the erased node exactly once and of no other node, also
\* when it erases the only node of the tree.
C27_EraseReleasesOnce ==
    [][(/\ status = "ok"
        /\ data_model
        /\ _node_alloc = reachable
        /\ last'.op = "erase"
        /\ last'.key \in stored)
          => /\ status' = "ok"
             /\ _node_alloc' = _node_alloc \ holders(last'.key)]_vars

\* C28: clear () on any tree reachable by inserts and erasures terminates,
\* follows no link of a deallocated node and deallocates every node once:
\* afterwards no node is allocated.
C28_ClearReleasesAll ==
    [][(status = "ok" /\ last'.op = "clear")
          => /\ status' = "ok"
             /\ _node_alloc' = {}
             /\ _tree_root' = NULL]_vars

\* The trees below a and below b have the same shape and the same keys in
\* the same places.
RECURSIVE same_tree(_, _, _, _)
same_tree(m, a, b, fuel) ==
    IF a = NULL \/ b = NULL THEN a = b
    ELSE /\ fuel # 0
         /\ m[a].value = m[b].value
         /\ same_tree(m, m[a].left, m[b].left, fuel - 1)
         /\ same_tree(m, m[a].right, m[b].right, fuel - 1)

\* C29: copy-constructing from any tree reachable by inserts and erasures
\* terminates and yields a tree of the same size, shape and keys as the
\* source, whose begin () and end () are on its own leftmost and rightmost
\* nodes.
C29_CopyIsFaithful ==
    last.op = "copy"
        => /\ status = "ok"
           /\ _tree_size = other.size
           /\ reachable \subseteq _node_alloc
           /\ same_tree(mem, other.root, _tree_root, Fuel)
           /\ _begin.iter = min_node
           /\ _end.iter = max_node

\* The call made last was left by std::bad_alloc.
bad_alloc ==
    /\ last.flag
    /\ last.op \in {"insert_throws", "emplace_throws", "emplace_hint_throws",
                    "insert_hint_throws", "assign"}

\* C30: when node allocation fails in insert, emplace, emplace_hint or copy
\* assignment, the exception leaves the tree with the nodes, links, size (),
\* begin () and end () it had before the call, and nothing allocated that
\* was not allocated before.
C30_AllocationFailureChangesNothing ==
    [][bad_alloc'
           => /\ status' = "thrown"
              /\ UNCHANGED <<mem, _node_alloc, _tree_root, _tree_size, _begin,
                             _end>>]_vars

\* The nodes of the tree, and the keys they hold.
live == reachable \cap _node_alloc
live_keys == {mem[n].value : n \in live}

\* C31: emplace (v) on a non-empty tree that already holds v releases the node
\* it created (the allocation is as before, nothing released twice), returns
\* (iterator on the node that holds v, false) and leaves the nodes, their
\* links, size (), begin () and end () unchanged.
C31_EmplaceDuplicateReleasesItsNode ==
    [][(/\ status = "ok"
        /\ _tree_size # 0
        /\ last'.op = "emplace"
        /\ last'.key \in live_keys)
           => /\ status' = "ok"
              /\ last'.flag = FALSE
              /\ last'.it = bstree_iterator(CHOOSE n \in live :
                                                mem[n].value = last'.key,
                                            "valid")
              /\ _node_alloc' = _node_alloc
              /\ <<_tree_root, _tree_size, _begin, _end>>'
                     = <<_tree_root, _tree_size, _begin, _end>>
              /\ reachable' = reachable
              /\ \A n \in live : mem'[n] = mem[n]]_vars

\* The nodes above x in the tree m, and whether x hangs where the comparator
\* leads v from each of them.
above(m, root, x) == {a \in reach(m, root, {}) \ {x} : x \in reach(m, a, {})}
guided(m, root, x, v) ==
    \A a \in above(m, root, x) :
        IF x \in reach(m, m[a].left, {}) THEN key_comp(v, m[a].value)
        ELSE key_comp(m[a].value, v)

\* C32: insert (v), no node of the tree holding v, returns (iterator on a new
\* node that holds v, true) and adds 1 to size (); the new node is a leaf,
\* the root if the tree was empty and otherwise in a child slot that was
\* null, where the comparisons with v lead from the root.
C32_InsertAttachesLeaf ==
    [][(/\ status = "ok"
        /\ last'.op = "insert"
        /\ last'.key \notin stored)
           => /\ status' = "ok"
              /\ last'.flag = TRUE
              /\ last'.it.state = "valid"
              /\ last'.it.iter \in _node_alloc' \ _node_alloc
              /\ mem'[last'.it.iter].value = last'.key
              /\ mem'[last'.it.iter].left = NULL
              /\ mem'[last'.it.iter].right = NULL
              /\ _tree_size' = _tree_size + 1
              /\ reachable' = reachable \cup {last'.it.iter}
              /\ IF _tree_size = 0
                 THEN /\ _tree_root' = last'.it.iter
                      /\ mem'[last'.it.iter].parent = NULL
                 ELSE /\ _tree_root' = _tree_root
                      /\ mem'[last'.it.iter].parent \in reachable
                      /\ \/ /\ mem[mem'[last'.it.iter].parent].left = NULL
                            /\ mem'[mem'[last'.it.iter].parent].left
                                   = last'.it.iter
                         \/ /\ mem[mem'[last'.it.iter].parent].right = NULL
                            /\ mem'[mem'[last'.it.iter].parent].right
                                   = last'.it.iter
                      /\ guided(mem', _tree_root', last'.it.iter, last'.key)]_vars

\* C33: an insert or emplace that inserts leaves every node the tree had with
\* its key, its parent link and its non-null child links, and changes one
\* child link that was null (or the root of an empty tree): an iterator
\* held before the call is still on the same element.
C33_InsertKeepsOtherNodes ==
    [][(/\ status = "ok"
        /\ last'.op \in Inserts
        /\ status' \in {"ok", "undefined"}
        /\ last'.flag)
           => /\ status' = "ok"
              /\ reachable \subseteq reachable'
              /\ reachable \subseteq _node_alloc'
              /\ \A n \in reachable :
                    /\ mem'[n].value = mem[n].value
                    /\ mem'[n].parent = mem[n].parent
                    /\ mem[n].left # NULL => mem'[n].left = mem[n].left
                    /\ mem[n].right # NULL => mem'[n].right = mem[n].right
              /\ Cardinality({n \in reachable : mem'[n] # mem[n]})
                     = IF _tree_root = NULL THEN 0 ELSE 1
              /\ _tree_root # NULL => _tree_root' = _tree_root]_vars

\* equal_range (k) ended on the pair (lower_bound (k), upper_bound (k)), the
\* three calls touching live nodes only.
pair_of_bounds(r, l, u) ==
    /\ ~r.hang /\ ~l.hang /\ ~u.hang
    /\ (r.touched \cup l.touched \cup u.touched) \subseteq _node_alloc
    /\ r.first = l.it
    /\ r.second = u.it

\* C34: for every key, stored or not, equal_range (key) equals
\* (lower_bound (key), upper_bound (key)).
C34_EqualRangeIsBounds ==
    (status = "ok" /\ last.op \in {"bstree", "insert", "erase"})
        => \A k \in Keys :
               pair_of_bounds(equal_range(this, k), lower_bound_impl(this, k),
                              upper_bound_impl(this, k))

\* What a sorting function is to leave of what it was given: the same
\* elements, in the order of their keys, and those of equal keys in the
\* order they came in.
permuted(a, b) ==
    /\ Len(a) = Len(b)
    /\ \A i \in DOMAIN a : \E j \in DOMAIN b : b[j] = a[i]
ascending(b) == \A i, j \in DOMAIN b : i < j => ~comp(b[j], b[i])
stable(b) ==
    \A i, j \in DOMAIN b : (i < j /\ b[i].key = b[j].key) => b[i].tag < b[j].tag

\* C35: blocksort leaves the range as a sorted permutation of what it was
\* given, whatever its length, and reads and writes no position outside it.
C35_BlocksortSorts ==
    sorting.call = "blocksort"
        => /\ sorting.how = "ok"
           /\ permuted(sorting.input, sorting.elems)
           /\ ascending(sorting.elems)

\* C36: blocksort is stable: elements of equal keys leave in the order they
\* came in.
C36_BlocksortStable ==
    (sorting.call = "blocksort" /\ sorting.how = "ok")
        => stable(sorting.elems)

\* C37: insertionsort gives the result of a stable sort: a permutation of
\* the input in the order of the keys, elements of equal keys in the order
\* of the input, for every length from 0 on.
C37_InsertionsortStable ==
    sorting.call = "insertionsort"
        => /\ permuted(sorting.input, sorting.elems)
           /\ ascending(sorting.elems)
           /\ stable(sorting.elems)

\* An insertionsort that had elements of equal keys to keep in order and
\* elements to move.
C37_InsertionsortRun ==
    /\ sorting.call = "insertionsort"
    /\ sorting.elems # sorting.input
    /\ \E i, j \in DOMAIN sorting.input :
          i < j /\ sorting.input[i].key = sorting.input[j].key

\* C38: shellsort leaves the range as a sorted permutation of what it was
\* given, for each of the three gap sequences and every length.
C38_ShellsortSorts ==
    sorting.call = "shellsort"
        => /\ sorting.seq \in shellseq
           /\ permuted(sorting.input, sorting.elems)
           /\ ascending(sorting.elems)

\* A shellsort of a range longer than a gap larger than 1, which had
\* elements to move.
C38_ShellsortRun ==
    /\ sorting.call = "shellsort"
    /\ sorting.seq = "sedgewick86"
    /\ Len(sorting.input) > 8
    /\ sorting.elems # sorting.input

\* The node an erasure has released, and whether c has taken its slot: c is
\* the root if n was, and otherwise the child n was of each node it was a
\* child of.
released == CHOOSE n \in _node_alloc \ _node_alloc' : TRUE
takes_slot(n, c) ==
    /\ n \notin reach(mem', _tree_root', {})
    /\ IF n = _tree_root THEN _tree_root' = c
       ELSE /\ _tree_root' = _tree_root
            /\ \A p \in reachable \ {n} :
                  /\ mem[p].left = n => mem'[p].left = c
                  /\ mem[p].right = n => mem'[p].right = c

\* An erase (pos) that has returned, of a node with two children.
erased_two ==
    /\ status = "ok"
    /\ last'.op \in {"erase", "erase_begin"}
    /\ status' \in {"ok", "undefined"}
    /\ _node_alloc' # _node_alloc
    /\ released \in reachable
    /\ mem[released].left # NULL
    /\ mem[released].right # NULL

\* C39: erase (pos) of a node with two children, size () being even, puts
\* the left child in the node's slot and the right child at the right of the
\* rightmost node of the left subtree; size () being odd, it puts the right
\* child in the slot and the left child at the left of the leftmost node of
\* the right subtree; the promoted child is the root if the node was.
C39_EraseTwoChildrenPromotes ==
    [][erased_two
           => /\ status' = "ok"
              /\ IF _tree_size % 2 = 0
                 THEN /\ takes_slot(released, mem[released].left)
                      /\ mem'[Last(rightmost(mem, mem[released].left,
                                             Fuel))].right
                             = mem[released].right
                 ELSE /\ takes_slot(released, mem[released].right)
                      /\ mem'[Last(leftmost(mem, mem[released].right,
                                            Fuel))].left
                             = mem[released].left]_vars

\* The keys of the tree greater than k, and the iterator it is on the element
\* that follows k in the tree after the call.
keys_above(k) == {j \in live_keys : j > k}
on_successor(it, k) ==
    /\ it.state = "valid"
    /\ it.iter \in reach(mem', _tree_root', {}) \cap _node_alloc'
    /\ mem'[it.iter].value \in keys_above(k)
    /\ \A j \in keys_above(k) : mem'[it.iter].value <= j

\* C40: erase (pos) returns an iterator on the element that followed the
\* erased one in order, a node of the resulting tree, and an iterator equal
\* to end () if the erased element was the maximum.
C40_EraseReturnsSuccessor ==
    [][(/\ status = "ok"
        /\ last'.op \in {"erase", "erase_begin"}
        /\ status' \in {"ok", "undefined"}
        /\ _node_alloc' # _node_alloc
        /\ released \in live)
           => /\ status' = "ok"
              /\ IF keys_above(mem[released].value) = {}
                 THEN iter_eq(last'.it, _end')
                 ELSE on_successor(last'.it, mem[released].value)]_vars
====
